---- MODULE Spec2Model ----
(***************************************************************************)
(* Model of the line-based text-diff engine of utilities.dev               *)
(* (src/app/diff/utils.ts).  Every utility is a pure function of its       *)
(* arguments, so the state is one call: the arguments (args), the exported *)
(* function that was called (call) and what it returned (ret).             *)
(*                                                                         *)
(* A text is a sequence of one-character strings; a line array is a        *)
(* sequence of texts.                                                      *)
(***************************************************************************)
EXTENDS Integers, Sequences, FiniteSets, TLC

VARIABLES args, call, ret

vars == <<args, call, ret>>

(***************************************************************************)
(* Bounds of the model.                                                    *)
(***************************************************************************)
\* longest line array a diff input text is joined from
MaxLines == 3
\* longest text given to processText
MaxTextLen == 5

(***************************************************************************)
(* Program constants.                                                      *)
(***************************************************************************)
\* diffTexts: useLCS = lines1.length + lines2.length < 1000
LCSThreshold == 1000
\* generateSimpleDiff: const lookAhead = 5
lookAhead == 5

Max(a, b) == IF a >= b THEN a ELSE b
Min(a, b) == IF a <= b THEN a ELSE b

(***************************************************************************)
(* Characters.  "a"/"A" are a lower/upper-case pair; " " and "\n" are two  *)
(* of the characters the regular expression \s and String.prototype.trim   *)
(* treat as white space; "\n" is also the line separator of split("\n").   *)
(***************************************************************************)
NL == "\n"
isWhitespace(c) == c \in {" ", "\n"}
UpperCaseLetters == {"A", "B", "C", "D", "E", "F", "G", "H", "I", "J", "K", "L", "M", "N", "O", "P", "Q", "R", "S", "T", "U", "V", "W", "X", "Y", "Z"}
\* String.prototype.toLowerCase, one character
lowerChar(c) ==
  IF c \notin UpperCaseLetters THEN c ELSE
  CASE c = "A" -> "a" [] c = "B" -> "b" [] c = "C" -> "c" [] c = "D" -> "d"
    [] c = "E" -> "e" [] c = "F" -> "f" [] c = "G" -> "g" [] c = "H" -> "h"
    [] c = "I" -> "i" [] c = "J" -> "j" [] c = "K" -> "k" [] c = "L" -> "l"
    [] c = "M" -> "m" [] c = "N" -> "n" [] c = "O" -> "o" [] c = "P" -> "p"
    [] c = "Q" -> "q" [] c = "R" -> "r" [] c = "S" -> "s" [] c = "T" -> "t"
    [] c = "U" -> "u" [] c = "V" -> "v" [] c = "W" -> "w" [] c = "X" -> "x"
    [] c = "Y" -> "y" [] c = "Z" -> "z" [] OTHER -> c
toLowerCase(s) == [k \in 1..Len(s) |-> lowerChar(s[k])]

\* the rest of s after its leading white-space run
RECURSIVE skipWhitespace(_)
skipWhitespace(s) ==
  IF s = <<>> THEN <<>>
  ELSE IF isWhitespace(Head(s)) THEN skipWhitespace(Tail(s))
  ELSE s

\* s.replace(/\s+/g, " "): every maximal white-space run becomes one space
RECURSIVE collapseWhitespace(_)
collapseWhitespace(s) ==
  IF s = <<>> THEN <<>>
  ELSE IF isWhitespace(Head(s))
       THEN <<" ">> \o collapseWhitespace(skipWhitespace(Tail(s)))
       ELSE <<Head(s)>> \o collapseWhitespace(Tail(s))

\* the text without its trailing white-space run
RECURSIVE trimEnd(_)
trimEnd(s) ==
  IF s = <<>> THEN <<>>
  ELSE IF isWhitespace(s[Len(s)]) THEN trimEnd(SubSeq(s, 1, Len(s) - 1))
  ELSE s

\* String.prototype.trim
trim(s) == trimEnd(skipWhitespace(s))

\* a bug processText could have: white space collapsed two characters at a
\* time (/\s\s/g), which leaves a shorter run behind in a run of four
RECURSIVE collapsePairs(_)
collapsePairs(s) ==
  IF s = <<>> THEN <<>>
  ELSE IF Len(s) >= 2 /\ isWhitespace(s[1]) /\ isWhitespace(s[2])
       THEN <<" ">> \o collapsePairs(Tail(Tail(s)))
       ELSE <<Head(s)>> \o collapsePairs(Tail(s))

processTextPairs(text, options) ==
  LET lowered == IF options.ignoreCase THEN toLowerCase(text) ELSE text
  IN  IF options.ignoreWhitespace THEN trim(collapsePairs(lowered))
      ELSE lowered

\* processText (utils.ts 42-57)
processText(text, options) ==
  LET lowered == IF options.ignoreCase THEN toLowerCase(text) ELSE text
  IN  IF options.ignoreWhitespace THEN trim(collapseWhitespace(lowered))
      ELSE lowered

\* text.split("\n"): the empty text splits into one empty line
RECURSIVE splitFrom(_, _)
splitFrom(s, cur) ==
  IF s = <<>> THEN <<cur>>
  ELSE IF Head(s) = NL THEN <<cur>> \o splitFrom(Tail(s), <<>>)
  ELSE splitFrom(Tail(s), Append(cur, Head(s)))

split(text) == splitFrom(text, <<>>)

\* lines.join("\n")
RECURSIVE join(_)
join(lines) ==
  IF lines = <<>> THEN <<>>
  ELSE IF Len(lines) = 1 THEN lines[1]
  ELSE lines[1] \o <<NL>> \o join(Tail(lines))

(***************************************************************************)
(* lcs (utils.ts 62-80): the table is filled row by row, as the two loops  *)
(* do; dp[i][j] for i in 0..m, j in 0..n.                                  *)
(***************************************************************************)
RECURSIVE lcsFill(_, _, _, _, _)
lcsFill(a, b, dp, i, j) ==
  IF i > Len(a) THEN dp
  ELSE IF j > Len(b) THEN lcsFill(a, b, dp, i + 1, 1)
  ELSE lcsFill(a, b,
         [dp EXCEPT ![i][j] = IF a[i] = b[j]
                              THEN dp[i - 1][j - 1] + 1
                              ELSE Max(dp[i - 1][j], dp[i][j - 1])],
         i, j + 1)

\* a bug lcs could have: the table left as it was allocated
lcsUnfilled(a, b) == [i \in 0..Len(a) |-> [j \in 0..Len(b) |-> 0]]

lcs(a, b) ==
  lcsFill(a, b, [i \in 0..Len(a) |-> [j \in 0..Len(b) |-> 0]], 1, 1)

(***************************************************************************)
(* DiffLine: a record with type and content, and lineNumber1/lineNumber2   *)
(* only where the code sets the property.                                  *)
(***************************************************************************)
\* a bug the Added literal could have: the number stored under lineNumber1
addedLineWrongSide(content, n2) ==
  [type |-> "added", content |-> content, lineNumber1 |-> n2]

equalLine(content, n1, n2) ==
  [type |-> "equal", content |-> content, lineNumber1 |-> n1, lineNumber2 |-> n2]
addedLine(content, n2) ==
  [type |-> "added", content |-> content, lineNumber2 |-> n2]
removedLine(content, n1) ==
  [type |-> "removed", content |-> content, lineNumber1 |-> n1]

\* a bug the walk could have: a tie of the two table cells broken toward the
\* removal (> for >=)
lcsWalkStepStrict(lines1, lines2, processedLines1, processedLines2, dp, i, j, result) ==
  IF i > 0 /\ j > 0 /\ processedLines1[i] = processedLines2[j]
  THEN [i |-> i - 1, j |-> j - 1,
        result |-> <<equalLine(lines1[i], i, j)>> \o result]
  ELSE IF j > 0 /\ (i = 0 \/ dp[i][j - 1] > dp[i - 1][j])
  THEN [i |-> i, j |-> j - 1, result |-> <<addedLine(lines2[j], j)>> \o result]
  ELSE IF i > 0
  THEN [i |-> i - 1, j |-> j, result |-> <<removedLine(lines1[i], i)>> \o result]
  ELSE [i |-> i, j |-> j, result |-> result]

\* a bug the walk could have: the removal taken only once the modified lines
\* are used up (i > 0 && j === 0), which leaves an iteration without a branch
lcsWalkStepStuck(lines1, lines2, processedLines1, processedLines2, dp, i, j, result) ==
  IF i > 0 /\ j > 0 /\ processedLines1[i] = processedLines2[j]
  THEN [i |-> i - 1, j |-> j - 1,
        result |-> <<equalLine(lines1[i], i, j)>> \o result]
  ELSE IF j > 0 /\ (i = 0 \/ dp[i][j - 1] >= dp[i - 1][j])
  THEN [i |-> i, j |-> j - 1, result |-> <<addedLine(lines2[j], j)>> \o result]
  ELSE IF i > 0 /\ j = 0
  THEN [i |-> i - 1, j |-> j, result |-> <<removedLine(lines1[i], i)>> \o result]
  ELSE [i |-> i, j |-> j, result |-> result]

\* a bug the walk could have: the lines pushed at the end of the result
\* (push for unshift), which leaves the result in backward order
lcsWalkStepPush(lines1, lines2, processedLines1, processedLines2, dp, i, j, result) ==
  IF i > 0 /\ j > 0 /\ processedLines1[i] = processedLines2[j]
  THEN [i |-> i - 1, j |-> j - 1,
        result |-> Append(result, equalLine(lines1[i], i, j))]
  ELSE IF j > 0 /\ (i = 0 \/ dp[i][j - 1] >= dp[i - 1][j])
  THEN [i |-> i, j |-> j - 1, result |-> Append(result, addedLine(lines2[j], j))]
  ELSE IF i > 0
  THEN [i |-> i - 1, j |-> j, result |-> Append(result, removedLine(lines1[i], i))]
  ELSE [i |-> i, j |-> j, result |-> result]

\* one iteration of the backward walk of generateLCSDiff (utils.ts 98-121):
\* the cursors and the result after the body ran at (i, j); unshift prepends.
\* The last branch is the code's "else if (i > 0)": an iteration in which no
\* branch is taken leaves the cursors and the result as they were.
lcsWalkStep(lines1, lines2, processedLines1, processedLines2, dp, i, j, result) ==
  IF i > 0 /\ j > 0 /\ processedLines1[i] = processedLines2[j]
  THEN [i |-> i - 1, j |-> j - 1,
        result |-> <<equalLine(lines1[i], i, j)>> \o result]
  ELSE IF j > 0 /\ (i = 0 \/ dp[i][j - 1] >= dp[i - 1][j])
  THEN [i |-> i, j |-> j - 1, result |-> <<addedLine(lines2[j], j)>> \o result]
  ELSE IF i > 0
  THEN [i |-> i - 1, j |-> j, result |-> <<removedLine(lines1[i], i)>> \o result]
  ELSE [i |-> i, j |-> j, result |-> result]

RECURSIVE lcsWalkFrom(_, _, _, _, _, _)
\* while (i > 0 || j > 0) of generateLCSDiff (utils.ts 97-122)
RECURSIVE lcsWalk(_, _, _, _, _, _, _, _)
lcsWalk(lines1, lines2, processedLines1, processedLines2, dp, i, j, result) ==
  IF ~(i > 0 \/ j > 0) THEN result
  ELSE lcsWalkFrom(lines1, lines2, processedLines1, processedLines2, dp,
                   lcsWalkStep(lines1, lines2, processedLines1, processedLines2,
                               dp, i, j, result))

\* the walk continued from the cursors and the result an iteration left
lcsWalkFrom(lines1, lines2, processedLines1, processedLines2, dp, st) ==
  lcsWalk(lines1, lines2, processedLines1, processedLines2, dp,
          st.i, st.j, st.result)

\* a bug the walk could have: the comparison of the two table cells reversed
\* (<= for >=), so the walk leaves the longest common subsequence
RECURSIVE lcsWalkReversed(_, _, _, _, _, _, _, _)
lcsWalkReversed(lines1, lines2, processedLines1, processedLines2, dp, i, j,
                result) ==
  IF ~(i > 0 \/ j > 0) THEN result
  ELSE IF i > 0 /\ j > 0 /\ processedLines1[i] = processedLines2[j]
       THEN lcsWalkReversed(lines1, lines2, processedLines1, processedLines2,
                            dp, i - 1, j - 1,
                            <<equalLine(lines1[i], i, j)>> \o result)
  ELSE IF j > 0 /\ (i = 0 \/ dp[i][j - 1] <= dp[i - 1][j])
       THEN lcsWalkReversed(lines1, lines2, processedLines1, processedLines2,
                            dp, i, j - 1, <<addedLine(lines2[j], j)>> \o result)
  ELSE lcsWalkReversed(lines1, lines2, processedLines1, processedLines2,
                       dp, i - 1, j, <<removedLine(lines1[i], i)>> \o result)

generateLCSDiffReversed(lines1, lines2, processedLines1, processedLines2) ==
  lcsWalkReversed(lines1, lines2, processedLines1, processedLines2,
                  lcs(processedLines1, processedLines2),
                  Len(lines1), Len(lines2), <<>>)

\* a bug generateLCSDiff could have: the content taken from the processed
\* lines instead of the lines of the text
generateLCSDiffProcessed(lines1, lines2, processedLines1, processedLines2) ==
  lcsWalk(processedLines1, processedLines2, processedLines1, processedLines2,
          lcs(processedLines1, processedLines2),
          Len(lines1), Len(lines2), <<>>)

\* generateLCSDiff (utils.ts 85-125)
generateLCSDiff(lines1, lines2, processedLines1, processedLines2) ==
  lcsWalk(lines1, lines2, processedLines1, processedLines2,
          lcs(processedLines1, processedLines2),
          Len(lines1), Len(lines2), <<>>)

(***************************************************************************)
(* generateSimpleDiff (utils.ts 130-241).  i and j are the 0-based cursors *)
(* of the code; line k of the code is element k + 1 of the sequence.       *)
(***************************************************************************)
\* a bug the first inner loop could have: the 0-based l stored as the line
\* number
addedRunZeroBased(lines2, from, to) ==
  [x \in 1..(to - from) |-> addedLine(lines2[from + x], from + x - 1)]

\* for (l = from; l < to; l++) result.push({type: "added", ...})
addedRun(lines2, from, to) ==
  [x \in 1..(to - from) |-> addedLine(lines2[from + x], from + x)]
\* for (l = from; l < to; l++) result.push({type: "removed", ...})
removedRun(lines1, from, to) ==
  [x \in 1..(to - from) |-> removedLine(lines1[from + x], from + x)]

\* the k at which the first look-ahead loop breaks (utils.ts 173-174), as a
\* set: empty when the loop finds nothing
matchInText2(processedLines1, processedLines2, i, j) ==
  LET found == {k \in (j + 1)..(Min(j + lookAhead, Len(processedLines2)) - 1) :
                  processedLines1[i + 1] = processedLines2[k + 1]}
  IN  IF found = {} THEN {}
      ELSE {CHOOSE k \in found : \A other \in found : k <= other}

\* the k at which the second look-ahead loop breaks (utils.ts 198-199)
matchInText1(processedLines1, processedLines2, i, j) ==
  LET found == {k \in (i + 1)..(Min(i + lookAhead, Len(processedLines1)) - 1) :
                  processedLines1[k + 1] = processedLines2[j + 1]}
  IN  IF found = {} THEN {}
      ELSE {CHOOSE k \in found : \A other \in found : k <= other}

\* a bug the last branch could have: the two lines pushed as one Equal line
noMatchFoundAsEqual(lines1, lines2, i, j, result) ==
  [i |-> i + 1, j |-> j + 1,
   result |-> Append(result, equalLine(lines1[i + 1], i + 1, j + 1))]

\* a bug the last branch could have: the addition pushed before the removal
noMatchFoundAddedFirst(lines1, lines2, i, j, result) ==
  [i |-> i + 1, j |-> j + 1,
   result |-> result \o <<addedLine(lines2[j + 1], j + 1),
                           removedLine(lines1[i + 1], i + 1)>>]

\* if (!foundMatch) after both look-aheads (utils.ts 222-236): a removal and
\* an addition, and both cursors advance
noMatchFound(lines1, lines2, i, j, result) ==
  [i |-> i + 1, j |-> j + 1,
   result |-> result \o <<removedLine(lines1[i + 1], i + 1),
                           addedLine(lines2[j + 1], j + 1)>>]

\* one iteration of the loop of generateSimpleDiff (utils.ts 141-237): the
\* cursors and the result after the body ran at (i, j); push appends
simpleScanStep(lines1, lines2, processedLines1, processedLines2, i, j, result) ==
  IF i >= Len(lines1)
  THEN [i |-> i, j |-> j + 1,
        result |-> Append(result, addedLine(lines2[j + 1], j + 1))]
  ELSE IF j >= Len(lines2)
  THEN [i |-> i + 1, j |-> j,
        result |-> Append(result, removedLine(lines1[i + 1], i + 1))]
  ELSE IF processedLines1[i + 1] = processedLines2[j + 1]
  THEN [i |-> i + 1, j |-> j + 1,
        result |-> Append(result, equalLine(lines1[i + 1], i + 1, j + 1))]
  ELSE LET in2 == matchInText2(processedLines1, processedLines2, i, j)
           in1 == matchInText1(processedLines1, processedLines2, i, j)
       IN  IF in2 # {}
           THEN LET k == CHOOSE x \in in2 : TRUE
                IN  [i |-> i + 1, j |-> k + 1,
                     result |-> Append(result \o addedRun(lines2, j, k),
                                       equalLine(lines1[i + 1], i + 1, k + 1))]
           ELSE IF in1 # {}
           THEN LET k == CHOOSE x \in in1 : TRUE
                IN  [i |-> k + 1, j |-> j + 1,
                     result |-> Append(result \o removedRun(lines1, i, k),
                                       equalLine(lines1[k + 1], k + 1, j + 1))]
           ELSE noMatchFound(lines1, lines2, i, j, result)

RECURSIVE simpleScanFrom(_, _, _, _, _)
\* while (i < lines1.length || j < lines2.length)  (utils.ts 140-238)
RECURSIVE simpleScan(_, _, _, _, _, _, _)
simpleScan(lines1, lines2, processedLines1, processedLines2, i, j, result) ==
  IF ~(i < Len(lines1) \/ j < Len(lines2)) THEN result
  ELSE simpleScanFrom(lines1, lines2, processedLines1, processedLines2,
                      simpleScanStep(lines1, lines2, processedLines1,
                                     processedLines2, i, j, result))

\* the loop continued from the cursors and the result an iteration left
simpleScanFrom(lines1, lines2, processedLines1, processedLines2, st) ==
  simpleScan(lines1, lines2, processedLines1, processedLines2,
             st.i, st.j, st.result)

generateSimpleDiff(lines1, lines2, processedLines1, processedLines2) ==
  simpleScan(lines1, lines2, processedLines1, processedLines2, 0, 0, <<>>)

\* lines.filter((line) => line.type === t).length
countType(lines, t) == Cardinality({k \in 1..Len(lines) : lines[k].type = t})

\* a bug calculateDiffStats could have: unchanged counted by a type name no
\* DiffLine has
calculateDiffStatsWrongType(lines) ==
  [added |-> countType(lines, "added"),
   removed |-> countType(lines, "removed"),
   unchanged |-> countType(lines, "unchanged"),
   total |-> Len(lines)]

\* calculateDiffStats (utils.ts 246-257)
calculateDiffStats(lines) ==
  [added |-> countType(lines, "added"),
   removed |-> countType(lines, "removed"),
   unchanged |-> countType(lines, "equal"),
   total |-> Len(lines)]

\* a bug the split could have: blank lines dropped (split then filter)
linesOfNoBlank(text) ==
  IF text # <<>> THEN SelectSeq(split(text), LAMBDA l : l # <<>>) ELSE <<>>

\* text ? text.split("\n") : []  (utils.ts 276-277)
linesOf(text) == IF text # <<>> THEN split(text) ELSE <<>>
\* lines.map((line) => processText(line, options))  (utils.ts 278-279)
processLines(lines, options) ==
  [k \in 1..Len(lines) |-> processText(lines[k], options)]

\* the DiffResult built from the chosen algorithm's lines (utils.ts 287-294)
diffResult(diffLines) ==
  LET stats == calculateDiffStats(diffLines)
  IN  [lines |-> diffLines,
       stats |-> stats,
       hasChanges |-> stats.added > 0 \/ stats.removed > 0]

\* a bug diffTexts could have: the second text compared without processing
diffTextsRawSecond(text1, text2, options) ==
  IF text1 = <<>> /\ text2 = <<>>
  THEN [lines |-> <<>>,
        stats |-> [added |-> 0, removed |-> 0, unchanged |-> 0, total |-> 0],
        hasChanges |-> FALSE]
  ELSE LET lines1 == linesOf(text1)
           lines2 == linesOf(text2)
       IN  diffResult(generateLCSDiff(lines1, lines2,
                                      processLines(lines1, options), lines2))

\* a bug diffTexts could have: no special case for empty texts, every text
\* split as it is
diffTextsAlwaysSplit(text1, text2, options) ==
  LET lines1 == split(text1)
      lines2 == split(text2)
  IN  diffResult(generateLCSDiff(lines1, lines2,
                                 processLines(lines1, options),
                                 processLines(lines2, options)))

\* a bug the choice could have: the fallback taken for every input
useLCSNever(lines1, lines2) == FALSE

\* const useLCS = lines1.length + lines2.length < 1000  (utils.ts 282)
useLCS(lines1, lines2) == Len(lines1) + Len(lines2) < LCSThreshold

\* diffTexts (utils.ts 262-295)
diffTexts(text1, text2, options) ==
  IF text1 = <<>> /\ text2 = <<>>
  THEN [lines |-> <<>>,
        stats |-> [added |-> 0, removed |-> 0, unchanged |-> 0, total |-> 0],
        hasChanges |-> FALSE]
  ELSE LET lines1 == linesOf(text1)
           lines2 == linesOf(text2)
           processedLines1 == processLines(lines1, options)
           processedLines2 == processLines(lines2, options)
       IN  diffResult(
             IF useLCS(lines1, lines2)
             THEN generateLCSDiff(lines1, lines2, processedLines1, processedLines2)
             ELSE generateSimpleDiff(lines1, lines2, processedLines1, processedLines2))

\* diffTexts past its both-empty return with useLCS false (utils.ts 276-294):
\* what diffTexts returns from LCSThreshold lines on, applied to line arrays
\* of any size, as a direct call of generateSimpleDiff is
diffTextsSimple(text1, text2, options) ==
  LET lines1 == linesOf(text1)
      lines2 == linesOf(text2)
  IN  diffResult(generateSimpleDiff(lines1, lines2,
                                    processLines(lines1, options),
                                    processLines(lines2, options)))

\* areTextsIdentical (utils.ts 416-424)
areTextsIdentical(text1, text2, options) ==
  processText(text1, options) = processText(text2, options)

(***************************************************************************)
(* getSimilarityPercentage (utils.ts 429-448).  The value is a number with *)
(* at most two decimals; it is kept in hundredths of a percent, the        *)
(* integer Math.round(similarity * 100) that the code then divides by 100. *)
(***************************************************************************)
\* a bug the rounding could have: truncation (Math.floor) in place of Math.round
flooredHundredths(num, den) == (num * 10000) \div den

\* Math.round(num / den * 100 * 100) for num >= 0, den > 0: halves round up
roundedHundredths(num, den) == (2 * num * 10000 + den) \div (2 * den)

getSimilarityPercentage(text1, text2, options) ==
  IF text1 = <<>> /\ text2 = <<>> THEN 10000
  ELSE IF text1 = <<>> \/ text2 = <<>> THEN 0
  ELSE LET lines1 == split(text1)
           lines2 == split(text2)
           totalLines == Max(Len(lines1), Len(lines2))
       IN  IF totalLines = 0 THEN 10000
           ELSE roundedHundredths(diffTexts(text1, text2, options).stats.unchanged,
                                  totalLines)

(***************************************************************************)
(* formatUnifiedDiff (utils.ts 300-382).  The output is the text the code  *)
(* joins from its result array of lines.                                   *)
(***************************************************************************)
digitChar(d) == <<"0", "1", "2", "3", "4", "5", "6", "7", "8", "9">>[d + 1]
\* `${n}` for a number n >= 0
RECURSIVE numberToString(_)
numberToString(n) ==
  IF n < 10 THEN <<digitChar(n)>>
  ELSE numberToString(n \div 10) \o <<digitChar(n % 10)>>

\* a bug the header could have: the two lengths in each other's place
hunkHeaderSwapped(startLine1, length1, startLine2, length2) ==
  <<"@", "@", " ", "-">> \o numberToString(startLine1) \o <<",">>
    \o numberToString(length2) \o <<" ", "+">> \o numberToString(startLine2)
    \o <<",">> \o numberToString(length1) \o <<" ", "@", "@">>

\* `@@ -${startLine1},${length1} +${startLine2},${length2} @@`
hunkHeader(startLine1, length1, startLine2, length2) ==
  <<"@", "@", " ", "-">> \o numberToString(startLine1) \o <<",">>
    \o numberToString(length1) \o <<" ", "+">> \o numberToString(startLine2)
    \o <<",">> \o numberToString(length2) \o <<" ", "@", "@">>

\* line.lineNumber1 || 1 and line.lineNumber2 || 1
lineNumber1Or1(line) ==
  IF "lineNumber1" \in DOMAIN line /\ line.lineNumber1 # 0
  THEN line.lineNumber1 ELSE 1
lineNumber2Or1(line) ==
  IF "lineNumber2" \in DOMAIN line /\ line.lineNumber2 # 0
  THEN line.lineNumber2 ELSE 1

\* `${prefix}${line.content}` (utils.ts 375-377)
prefixedLine(line) ==
  <<IF line.type = "added" THEN "+"
    ELSE IF line.type = "removed" THEN "-" ELSE " ">> \o line.content

\* while (i < lines.length && lines[i].type === "equal") i++   (0-based i)
RECURSIVE skipEqual(_, _)
skipEqual(lines, i) ==
  IF i < Len(lines) /\ lines[i + 1].type = "equal" THEN skipEqual(lines, i + 1)
  ELSE i
\* while (i < lines.length && lines[i].type !== "equal") i++
RECURSIVE skipChanged(_, _)
skipChanged(lines, i) ==
  IF i < Len(lines) /\ lines[i + 1].type # "equal" THEN skipChanged(lines, i + 1)
  ELSE i

\* the hunk loop (utils.ts 333-379)
RECURSIVE hunkLoop(_, _, _)
hunkLoop(lines, i0, result) ==
  IF ~(i0 < Len(lines)) THEN result
  ELSE LET start == skipEqual(lines, i0)
       IN  IF start >= Len(lines) THEN result
           ELSE LET i == skipChanged(lines, start)
                    removedCount ==
                      Cardinality({idx \in start..(i - 1) :
                                     lines[idx + 1].type = "removed"})
                    addedCount ==
                      Cardinality({idx \in start..(i - 1) :
                                     lines[idx + 1].type = "added"})
                    contextStart == IF start > 0 THEN start - 1 ELSE start
                    contextBefore == IF start > 0 THEN 1 ELSE 0
                    header == hunkHeader(lineNumber1Or1(lines[contextStart + 1]),
                                         contextBefore + removedCount,
                                         lineNumber2Or1(lines[contextStart + 1]),
                                         contextBefore + addedCount)
                    context == IF start > 0
                               THEN <<<<" ">> \o lines[start].content>>
                               ELSE <<>>
                    body == [x \in 1..(i - start) |-> prefixedLine(lines[start + x])]
                IN  hunkLoop(lines, i, result \o <<header>> \o context \o body)

formatUnifiedDiff(diffRes, filename1, filename2) ==
  LET lines == diffRes.lines
      result == <<<<"-", "-", "-", " ">> \o filename1,
                  <<"+", "+", "+", " ">> \o filename2>>
  IN  IF Len(lines) = 0 THEN join(result)
      ELSE IF ~diffRes.hasChanges /\ Len(lines) > 0
      THEN LET equalLines == SelectSeq(lines, LAMBDA l : l.type = "equal")
           IN  IF Len(equalLines) > 0
               THEN join(result
                      \o <<hunkHeader(lineNumber1Or1(equalLines[1]), Len(equalLines),
                                      lineNumber2Or1(equalLines[1]), Len(equalLines))>>
                      \o [x \in 1..Len(equalLines) |->
                            <<" ">> \o equalLines[x].content])
               ELSE join(result)
      ELSE join(hunkLoop(lines, 0, result))

\* exportAsPatch (utils.ts 402-411)
exportAsPatch(text1, text2, filename1, filename2, options) ==
  formatUnifiedDiff(diffTexts(text1, text2, options), filename1, filename2)

\* the default file names of exportAsPatch
DefaultFilename1 == <<"a", ".", "t", "x", "t">>
DefaultFilename2 == <<"b", ".", "t", "x", "t">>

(***************************************************************************)
(* The inputs of the model.                                                *)
(***************************************************************************)
DiffOptions == [ignoreCase : BOOLEAN, ignoreWhitespace : BOOLEAN]

\* the lines the diff inputs are made of: the empty line, a letter, and its
\* upper-case form followed by a space
LineVocab == {<<>>, <<"a">>, <<"A", " ">>}
LineArrays == UNION {[1..n -> LineVocab] : n \in 1..MaxLines}
\* join(<<<<>>>>) is the empty text
DiffTextsIn == {join(ls) : ls \in LineArrays}

Chars == {"a", "A", " ", NL}
Texts == UNION {[1..n -> Chars] : n \in 0..MaxTextLen}

NoCall == "none"

(***************************************************************************)
(* The diff engine: one call of an exported function on a pair of texts.   *)
(***************************************************************************)
Init ==
  /\ args \in [text1 : DiffTextsIn, text2 : DiffTextsIn, options : DiffOptions]
  /\ call = NoCall
  /\ ret = <<>>

\* diffTexts(text1, text2, options)
DiffTexts ==
  /\ call = NoCall
  /\ call' = "diffTexts"
  /\ ret' = diffTexts(args.text1, args.text2, args.options)
  /\ UNCHANGED args

\* generateSimpleDiff on the line arrays diffTexts builds from the two texts
GenerateSimpleDiff ==
  /\ call = NoCall
  /\ call' = "generateSimpleDiff"
  /\ ret' = diffTextsSimple(args.text1, args.text2, args.options)
  /\ UNCHANGED args

Next == DiffTexts \/ GenerateSimpleDiff

Spec == Init /\ [][Next]_vars

(***************************************************************************)
(* The functions built on diffTexts: one call on a pair of texts.          *)
(***************************************************************************)
\* getSimilarityPercentage(text1, text2, options)
GetSimilarityPercentage ==
  /\ call = NoCall
  /\ call' = "getSimilarityPercentage"
  /\ ret' = getSimilarityPercentage(args.text1, args.text2, args.options)
  /\ UNCHANGED args

\* exportAsPatch(text1, text2, undefined, undefined, options)
ExportAsPatch ==
  /\ call = NoCall
  /\ call' = "exportAsPatch"
  /\ ret' = exportAsPatch(args.text1, args.text2,
                          DefaultFilename1, DefaultFilename2, args.options)
  /\ UNCHANGED args

NextUse == GetSimilarityPercentage

SpecUse == Init /\ [][NextUse]_vars

NextPatch == ExportAsPatch

SpecPatch == Init /\ [][NextPatch]_vars

\* areTextsIdentical(text1, text2, options)
AreTextsIdentical ==
  /\ call = NoCall
  /\ call' = "areTextsIdentical"
  /\ ret' = areTextsIdentical(args.text1, args.text2, args.options)
  /\ UNCHANGED args

NextIdentical == AreTextsIdentical

SpecIdentical == Init /\ [][NextIdentical]_vars

(***************************************************************************)
(* Normalisation alone: one call of processText on any text.               *)
(***************************************************************************)
InitNorm ==
  /\ args \in [text : Texts, options : DiffOptions]
  /\ call = NoCall
  /\ ret = <<>>

\* processText(text, options)
ProcessText ==
  /\ call = NoCall
  /\ call' = "processText"
  /\ ret' = processText(args.text, args.options)
  /\ UNCHANGED args

NextNorm == ProcessText

SpecNorm == InitNorm /\ [][NextNorm]_vars

(***************************************************************************)
(* The cron scheduler (src/app/markdown-viewer/utils.ts 528-1018).  A cron *)
(* expression and its fields are texts: sequences of one-character         *)
(* strings.                                                                *)
(***************************************************************************)
\* an argument that was not passed, or is not a string
Undefined == <<"undefined">>

\* String.prototype.split(/\s+/)
RECURSIVE splitWhitespaceFrom(_, _)
splitWhitespaceFrom(s, cur) ==
  IF s = <<>> THEN <<cur>>
  ELSE IF isWhitespace(Head(s))
       THEN <<cur>> \o splitWhitespaceFrom(skipWhitespace(s), <<>>)
       ELSE splitWhitespaceFrom(Tail(s), Append(cur, Head(s)))
splitWhitespace(s) == splitWhitespaceFrom(s, <<>>)

\* String.prototype.split(sep) for a one-character separator
RECURSIVE splitOnFrom(_, _, _)
splitOnFrom(s, sep, cur) ==
  IF s = <<>> THEN <<cur>>
  ELSE IF Head(s) = sep THEN <<cur>> \o splitOnFrom(Tail(s), sep, <<>>)
  ELSE splitOnFrom(Tail(s), sep, Append(cur, Head(s)))
splitOn(s, sep) == splitOnFrom(s, sep, <<>>)

\* String.prototype.includes(c) for a one-character c
includes(s, c) == \E k \in 1..Len(s) : s[k] = c

\* the error messages of parseCronExpression; the last one ends with `${n}`
ErrNotString == <<"Expression must be a non-empty string">>
ErrEmpty == <<"Expression cannot be empty">>
ErrParts(n) == <<"Invalid cron format. Expected 5 or 6 parts, got ">> \o numberToString(n)

\* the result of parseCronExpression for the parts of the trimmed expression
\* (utils.ts 650-672)
parsedParts(parts) ==
  IF Len(parts) = 5
  THEN [success |-> TRUE,
        data |-> [minute |-> parts[1], hour |-> parts[2],
                  dayOfMonth |-> parts[3], month |-> parts[4],
                  dayOfWeek |-> parts[5]]]
  ELSE IF Len(parts) = 6
  THEN [success |-> TRUE,
        data |-> [second |-> parts[1], minute |-> parts[2],
                  hour |-> parts[3], dayOfMonth |-> parts[4],
                  month |-> parts[5], dayOfWeek |-> parts[6]]]
  ELSE [success |-> FALSE, error |-> ErrParts(Len(parts))]

\* a bug parseCronExpression could have: the expression split on single
\* blanks, so that other or doubled white space stays in the parts
parseCronExpressionSingleBlank(expression) ==
  IF expression = Undefined \/ expression = <<>>
  THEN [success |-> FALSE, error |-> ErrNotString]
  ELSE IF trim(expression) = <<>> THEN [success |-> FALSE, error |-> ErrEmpty]
  ELSE parsedParts(splitOn(trim(expression), " "))

\* parseCronExpression (utils.ts 625-673)
parseCronExpression(expression) ==
  IF expression = Undefined \/ expression = <<>>
  THEN [success |-> FALSE, error |-> ErrNotString]
  ELSE IF trim(expression) = <<>> THEN [success |-> FALSE, error |-> ErrEmpty]
  ELSE parsedParts(splitWhitespace(trim(expression)))

\* no name table (names: undefined)
NoNames == <<>>
MonthNames == << <<"J","A","N">>, <<"F","E","B">>, <<"M","A","R">>, <<"A","P","R">>, <<"M","A","Y">>, <<"J","U","N">>, <<"J","U","L">>, <<"A","U","G">>, <<"S","E","P">>, <<"O","C","T">>, <<"N","O","V">>, <<"D","E","C">> >>
DayOfWeekNames == << <<"S","U","N">>, <<"M","O","N">>, <<"T","U","E">>, <<"W","E","D">>, <<"T","H","U">>, <<"F","R","I">>, <<"S","A","T">> >>

\* CRON_RANGES (utils.ts 561-589)
CRON_RANGES ==
  [second |-> [min |-> 0, max |-> 59, names |-> NoNames],
   minute |-> [min |-> 0, max |-> 59, names |-> NoNames],
   hour |-> [min |-> 0, max |-> 23, names |-> NoNames],
   dayOfMonth |-> [min |-> 1, max |-> 31, names |-> NoNames],
   month |-> [min |-> 1, max |-> 12, names |-> MonthNames],
   dayOfWeek |-> [min |-> 0, max |-> 6, names |-> DayOfWeekNames]]

isDigit(c) == c \in {"0", "1", "2", "3", "4", "5", "6", "7", "8", "9"}
digitValue(c) == CHOOSE d \in 0..9 : digitChar(d) = c

\* the value of the leading digit run of s
RECURSIVE digitsValue(_, _)
digitsValue(s, acc) ==
  IF s = <<>> \/ ~isDigit(Head(s)) THEN acc
  ELSE digitsValue(Tail(s), acc * 10 + digitValue(Head(s)))

\* the number the longest leading run of digits of u stands for, with the
\* sign sgn; NaN when u does not start with a digit
parseDigits(u, sgn) ==
  IF u = <<>> \/ ~isDigit(Head(u)) THEN [isNaN |-> TRUE]
  ELSE [isNaN |-> FALSE, value |-> sgn * digitsValue(u, 0)]

\* parseInt without leading white space: an optional sign, then digits
parseSigned(t) ==
  IF t # <<>> /\ Head(t) = "-" THEN parseDigits(Tail(t), -1)
  ELSE IF t # <<>> /\ Head(t) = "+" THEN parseDigits(Tail(t), 1)
  ELSE parseDigits(t, 1)

\* parseInt(s, 10)
parseInt(s) == parseSigned(skipWhitespace(s))

\* names.findIndex((name) => name.toLowerCase() === value.toLowerCase()),
\* 0-based, -1 when there is none
findNameIndex(names, value) ==
  IF \E k \in 1..Len(names) : toLowerCase(names[k]) = toLowerCase(value)
  THEN (CHOOSE k \in 1..Len(names) :
          /\ toLowerCase(names[k]) = toLowerCase(value)
          /\ \A h \in 1..(k - 1) : toLowerCase(names[h]) # toLowerCase(value)) - 1
  ELSE -1

\* isNaN(numValue) ? -1 : numValue
minusOneIfNaN(numValue) == IF numValue.isNaN THEN -1 ELSE numValue.value

\* getFieldValue (utils.ts 678-694)
getFieldValue(value, names, min) ==
  IF names # NoNames /\ findNameIndex(names, value) # -1
  THEN findNameIndex(names, value) + min
  ELSE minusOneIfNaN(parseInt(value))

\* the values a loop "for (i = from; i <= to; i += step) values.push(i)" pushes
pushEvery(from, to, step) ==
  IF from > to THEN <<>>
  ELSE [k \in 1..((to - from) \div step + 1) |-> from + (k - 1) * step]

\* [...new Set(values)].sort((a, b) => a - b)
RECURSIVE sortNumbers(_)
sortNumbers(set) ==
  IF set = {} THEN <<>>
  ELSE <<CHOOSE x \in set : \A y \in set : x <= y>>
       \o sortNumbers(set \ {CHOOSE x \in set : \A y \in set : x <= y})
\* a bug parseField could have: the values returned as they were pushed
pushedValues(values) == values
uniqueSorted(values) == sortNumbers({values[k] : k \in 1..Len(values)})

\* the values of a range start-end, plain or with a step (utils.ts 733-737,
\* 752-756)
rangeValues(startNum, endNum, step, min, max) ==
  IF startNum >= min /\ endNum <= max /\ startNum <= endNum
  THEN pushEvery(startNum, endNum, step) ELSE <<>>

\* the values of a single start with a step (utils.ts 740-744)
steppedFrom(startNum, step, min, max) ==
  IF startNum >= min /\ startNum <= max THEN pushEvery(startNum, max, step)
  ELSE <<>>

\* a single value (utils.ts 759-762)
singleValue(num, min, max) == IF num >= min /\ num <= max THEN <<num>> ELSE <<>>

\* a part range/step (utils.ts 719-745)
stepPart(range, stepNum, min, max, names) ==
  IF stepNum.isNaN \/ stepNum.value <= 0 THEN <<>>
  ELSE IF range = <<"*">> THEN pushEvery(min, max, stepNum.value)
  ELSE IF includes(range, "-")
  THEN rangeValues(getFieldValue(splitOn(range, "-")[1], names, min),
                   getFieldValue(splitOn(range, "-")[2], names, min),
                   stepNum.value, min, max)
  ELSE steppedFrom(getFieldValue(range, names, min), stepNum.value, min, max)

\* one turn of the loop of parseField over the comma-separated parts
\* (utils.ts 716-764): the values the part pushes
parsePart(part, min, max, names) ==
  IF includes(part, "/")
  THEN stepPart(splitOn(part, "/")[1], parseInt(splitOn(part, "/")[2]), min, max, names)
  ELSE IF includes(part, "-")
  THEN rangeValues(getFieldValue(splitOn(part, "-")[1], names, min),
                   getFieldValue(splitOn(part, "-")[2], names, min), 1, min, max)
  ELSE singleValue(getFieldValue(part, names, min), min, max)

\* the values array after the loop over parts
RECURSIVE pushParts(_, _, _, _)
pushParts(parts, min, max, names) ==
  IF parts = <<>> THEN <<>>
  ELSE parsePart(Head(parts), min, max, names) \o pushParts(Tail(parts), min, max, names)

\* parseField (utils.ts 699-767)
parseField(field, min, max, names) ==
  IF field = <<"*">> THEN pushEvery(min, max, 1)
  ELSE uniqueSorted(pushParts(splitOn(field, ","), min, max, names))

\* a bug validateCronField could have: a field counts as valid when it
\* reads as a number, whatever its range
validateCronFieldAnyNumber(field, type) ==
  IF field = Undefined \/ field = <<>> THEN FALSE
  ELSE field = <<"*">> \/ ~parseInt(field).isNaN

\* validateCronField (utils.ts 772-786)
validateCronField(field, type) ==
  IF field = Undefined \/ field = <<>> THEN FALSE
  ELSE Len(parseField(field, CRON_RANGES[type].min, CRON_RANGES[type].max,
                      CRON_RANGES[type].names)) > 0

\* validations.every((v) => v) for the fields of data (utils.ts 801-813)
validateData(data) ==
  /\ validateCronField(data.minute, "minute")
  /\ validateCronField(data.hour, "hour")
  /\ validateCronField(data.dayOfMonth, "dayOfMonth")
  /\ validateCronField(data.month, "month")
  /\ validateCronField(data.dayOfWeek, "dayOfWeek")
  /\ ("second" \in DOMAIN data /\ data.second # <<>>) =>
       validateCronField(data.second, "second")

\* validateCronExpression after its call of parseCronExpression
validateParsed(parseResult) ==
  IF ~parseResult.success THEN FALSE ELSE validateData(parseResult.data)

\* validateCronExpression (utils.ts 791-814)
validateCronExpression(expression) == validateParsed(parseCronExpression(expression))

MONTH_NAMES == <<"January", "February", "March", "April", "May", "June", "July", "August", "September", "October", "November", "December">>
DAY_NAMES == <<"Sunday", "Monday", "Tuesday", "Wednesday", "Thursday", "Friday", "Saturday">>

\* formatValue of describeCronField (utils.ts 834-842)
formatValue(value, type) ==
  IF type = "month" /\ value >= 1 /\ value <= 12 THEN <<MONTH_NAMES[value]>>
  ELSE IF type = "dayOfWeek" /\ value >= 0 /\ value <= 6 THEN <<DAY_NAMES[value + 1]>>
  ELSE numberToString(value)

\* values.map(formatValue).join(", ")
RECURSIVE formatValues(_, _)
formatValues(values, type) ==
  IF Len(values) = 1 THEN formatValue(values[1], type)
  ELSE formatValue(values[1], type) \o <<", ">> \o formatValues(Tail(values), type)

\* describeCronField for the values of a field other than '*' (utils.ts
\* 830-869); a description is the sequence of the pieces its template
\* string is put together from
describeValues(values, type, range) ==
  IF Len(values) = 0 THEN <<"invalid ", type>>
  ELSE IF Len(values) = 1 THEN <<"at ">> \o formatValue(values[1], type)
  ELSE IF Len(values) = range.max - range.min + 1 THEN <<"every ", type>>
  ELSE IF (\A idx \in 2..Len(values) : values[idx] = values[idx - 1] + 1) /\ Len(values) > 2
  THEN <<"from ">> \o formatValue(values[1], type) \o <<" to ">>
       \o formatValue(values[Len(values)], type)
  ELSE IF Len(values) <= 3 THEN <<"at ">> \o formatValues(values, type)
  ELSE <<"at ">> \o formatValues(SubSeq(values, 1, 2), type) \o <<" and ">>
       \o numberToString(Len(values) - 2) \o <<" more">>

\* describeCronField (utils.ts 819-870)
describeCronField(field, type) ==
  IF field = <<"*">> THEN <<"every ", type>>
  ELSE describeValues(parseField(field, CRON_RANGES[type].min, CRON_RANGES[type].max,
                                 CRON_RANGES[type].names), type, CRON_RANGES[type])

(***************************************************************************)
(* Dates.  A Date is the number of seconds since 2024-01-01T00:00:00 local *)
(* time, a Monday; the local time zone has no daylight-saving change, so   *)
(* that setMinutes(getMinutes() + 1) adds sixty seconds.                   *)
(***************************************************************************)
\* the lengths of the months of 2024
MonthLengths == <<31, 29, 31, 30, 31, 30, 31, 31, 30, 31, 30, 31>>

\* month (1..12) and day of the month of the day-th day of the year (from 0)
RECURSIVE dateOfDay(_, _)
dateOfDay(day, month) ==
  IF day < MonthLengths[month] THEN [month |-> month, date |-> day + 1]
  ELSE dateOfDay(day - MonthLengths[month], month + 1)
dayOfDate(t) == t \div 86400
\* Date.prototype.getMonth() + 1
getMonth1(t) == dateOfDay(dayOfDate(t), 1).month
getDate(t) == dateOfDay(dayOfDate(t), 1).date
\* Date.prototype.getDay(): 0 is Sunday
getDay(t) == (dayOfDate(t) + 1) % 7
getHours(t) == (t \div 3600) % 24
getMinutes(t) == (t \div 60) % 60
\* current.setSeconds(0, 0)
setSeconds0(t) == t - (t % 60)
\* current.setMinutes(current.getMinutes() + 1)
addMinute(t) == t + 60

maxAttempts == 10000

asSet(values) == {values[k] : k \in 1..Len(values)}

\* the first candidate: the next whole minute after now (utils.ts 973-977)
firstCandidate(now) == addMinute(setSeconds0(now))

\* a bug calculateNextExecutions could have: the two day fields combined
\* with AND
dayMatchesBoth(daysOfMonth, daysOfWeek, current) ==
  getDate(current) \in daysOfMonth /\ getDay(current) \in daysOfWeek
\* dayMatches (utils.ts 1004-1005)
dayMatches(daysOfMonth, daysOfWeek, current) ==
  getDate(current) \in daysOfMonth \/ getDay(current) \in daysOfWeek

\* the test of one candidate (utils.ts 997-1009)
candidateMatches(f, current) ==
  /\ getMonth1(current) \in f.months
  /\ dayMatches(f.daysOfMonth, f.daysOfWeek, current)
  /\ getHours(current) \in f.hours
  /\ getMinutes(current) \in f.minutes

\* The loop of calculateNextExecutions (utils.ts 993-1015).  Turn k of the
\* loop (attempts = k) tests the candidate k - 1 minutes after the first one.
candidateOfTurn(first, k) == first + 60 * (k - 1)

\* the turns that push their candidate, were the loop to run all its turns
pushingTurns(f, first) ==
  {k \in 1..maxAttempts : candidateMatches(f, candidateOfTurn(first, k))}

\* the number of turns the loop runs: none when count is not positive, up to
\* the turn of the count-th push, and all maxAttempts of them when there are
\* fewer than count pushes
turnsRun(pushing, count) ==
  IF count <= 0 THEN 0
  ELSE IF Cardinality(pushing) < count THEN maxAttempts
  ELSE CHOOSE k \in pushing : Cardinality({j \in pushing : j <= k}) = count

\* the candidates of the turns ran, a set of pushing turns, in their order
candidatesOf(ran, first) ==
  [i \in 1..Cardinality(ran) |->
     candidateOfTurn(first, CHOOSE k \in ran : Cardinality({j \in ran : j <= k}) = i)]

\* the variables of the loop after turns turns
loopAfter(pushing, turns, first) ==
  [executions |-> candidatesOf({k \in pushing : k <= turns}, first),
   attempts |-> turns,
   current |-> candidateOfTurn(first, turns + 1)]

\* the variables of the loop when it ends
loopEnd(pushing, count, first) == loopAfter(pushing, turnsRun(pushing, count), first)

\* the expansions of the five fields (utils.ts 979-988)
fieldSets(data) ==
  [minutes |-> asSet(parseField(data.minute, 0, 59, NoNames)),
   hours |-> asSet(parseField(data.hour, 0, 23, NoNames)),
   daysOfMonth |-> asSet(parseField(data.dayOfMonth, 1, 31, NoNames)),
   months |-> asSet(parseField(data.month, 1, 12, CRON_RANGES.month.names)),
   daysOfWeek |-> asSet(parseField(data.dayOfWeek, 0, 6, CRON_RANGES.dayOfWeek.names))]

\* the variables of the loop when calculateNextExecutions returns, for a
\* valid expression
finalAttempt(expression, count, now) ==
  loopEnd(pushingTurns(fieldSets(parseCronExpression(expression).data),
                       firstCandidate(now)), count, firstCandidate(now))

\* calculateNextExecutions (utils.ts 957-1018); now is what new Date() reads
calculateNextExecutions(expression, count, now) ==
  IF ~parseCronExpression(expression).success \/ ~validateCronExpression(expression)
  THEN <<>>
  ELSE finalAttempt(expression, count, now).executions

Null == [isNull |-> TRUE]

\* the summary of describeCronExpression (utils.ts 924-951)
summaryOf(data) ==
  IF /\ data.minute = <<"0">> /\ data.hour = <<"0">> /\ data.dayOfMonth = <<"*">>
     /\ data.month = <<"*">> /\ data.dayOfWeek = <<"*">>
  THEN "Daily at midnight"
  ELSE IF /\ data.minute # <<"*">> /\ data.hour # <<"*">> /\ data.dayOfWeek # <<"*">>
          /\ data.dayOfMonth = <<"*">> /\ data.month = <<"*">>
  THEN "Weekly schedule"
  ELSE IF /\ data.minute # <<"*">> /\ data.hour # <<"*">> /\ data.dayOfMonth = <<"*">>
          /\ data.month = <<"*">> /\ data.dayOfWeek = <<"*">>
  THEN "Daily schedule"
  ELSE "Custom schedule"

\* the days of the description, from the descriptions of the two day fields
\* (utils.ts 909-915)
daysDescription(data, dayOfMonthDesc, dayOfWeekDesc) ==
  IF data.dayOfMonth # <<"*">> /\ data.dayOfWeek # <<"*">>
  THEN <<", on ">> \o dayOfMonthDesc \o <<" of the month and on ">> \o dayOfWeekDesc
  ELSE IF data.dayOfMonth # <<"*">>
  THEN <<", on ">> \o dayOfMonthDesc \o <<" of the month">>
  ELSE IF data.dayOfWeek # <<"*">> THEN <<", on ">> \o dayOfWeekDesc
  ELSE <<>>

\* the description of describeCronExpression (utils.ts 892-921)
descriptionOf(data) ==
  <<"Runs ">>
  \o (IF "second" \in DOMAIN data /\ data.second # <<"0">>
      THEN describeCronField(data.second, "second") \o <<", ">> ELSE <<>>)
  \o describeCronField(data.minute, "minute") \o <<" past ">>
  \o describeCronField(data.hour, "hour")
  \o daysDescription(data, describeCronField(data.dayOfMonth, "dayOfMonth"),
                     describeCronField(data.dayOfWeek, "dayOfWeek"))
  \o (IF data.month # <<"*">>
      THEN <<", ">> \o describeCronField(data.month, "month") ELSE <<>>)

\* the CronDescription of a valid expression (utils.ts 947-951)
cronDescription(data, expression, now) ==
  [description |-> descriptionOf(data),
   summary |-> summaryOf(data),
   nextExecutions |-> calculateNextExecutions(expression, 5, now)]

\* a bug describeCronExpression could have: an expression that parses is
\* described without being validated
describeCronExpressionUnvalidated(expression, now) ==
  IF ~parseCronExpression(expression).success THEN Null
  ELSE cronDescription(parseCronExpression(expression).data, expression, now)

\* describeCronExpression (utils.ts 875-952)
describeCronExpression(expression, now) ==
  IF ~parseCronExpression(expression).success THEN Null
  ELSE IF ~validateCronExpression(expression) THEN Null
  ELSE cronDescription(parseCronExpression(expression).data, expression, now)

(***************************************************************************)
(* The inputs of the cron scheduler.                                       *)
(***************************************************************************)
MaxFields == 7
MaxParts == 2
DefaultCount == 5

\* Array.prototype.join(sep)
RECURSIVE joinWith(_, _)
joinWith(parts, sep) ==
  IF parts = <<>> THEN <<>>
  ELSE IF Len(parts) = 1 THEN parts[1]
  ELSE parts[1] \o sep \o joinWith(Tail(parts), sep)

\* the fields the parsed expressions are made of: a wildcard, a number that
\* is a minute, an hour, a day of the month and a month but no weekday, and
\* a number outside every range
FieldVocab == {<<"*">>, <<"7">>, <<"6", "0">>}
\* the white space around and between the fields
Layouts == [pad : {<<>>, <<" ">>}, sep : {<<" ">>, <<" ", NL>>}]
\* the expressions of the tests of validateCronExpression
TestExpressions ==
  {<<"0", " ", "9", " ", "*", " ", "*", " ", "1">>,
   <<"6", "0", " ", "9", " ", "*", " ", "*", " ", "1">>,
   <<"0", " ", "2", "5", " ", "*", " ", "*", " ", "1">>,
   <<"0", " ", "9", " ", "*", " ", "*", " ", "8">>,
   <<"i", "n", "v", "a", "l", "i", "d">>}
Expressions ==
  {lay.pad \o joinWith(fs, lay.sep) \o lay.pad :
     fs \in UNION {[1..n -> FieldVocab] : n \in 0..MaxFields}, lay \in Layouts}
  \cup TestExpressions \cup {Undefined}

\* the comma-separated parts the fields are made of: every form a part can
\* take, in and out of range, with and without names, and malformed
PartVocab ==
  {<<"*">>, <<"5">>, <<"0">>, <<"6", "0">>, <<"1", "-", "3">>, <<"4", "-", "2">>,
   <<"*", "/", "2">>, <<"1", "-", "6", "/", "2">>, <<"3", "/", "4">>,
   <<"*", "/", "0">>, <<"2", "/", "x">>, <<"M", "O", "N", "-", "f", "r", "i">>,
   <<"f", "e", "b">>, <<"-", "1">>, <<>>,
   <<"*", "/", "1", "5">>, <<"6", "0", "/", "5">>, <<"1", "-", "6", "0", "/", "2">>,
   <<"f", "e", "b", "/", "5">>, <<"*", "/", "2", "x">>}
Fields == {joinWith(ps, <<",">>) : ps \in UNION {[1..n -> PartVocab] : n \in 1..MaxParts}}
FieldTypes == {"second", "minute", "hour", "dayOfMonth", "month", "dayOfWeek"}

\* the Date of a day of January 2024 at a time of the day
dateInJanuary(date, hours, minutes, seconds) ==
  (date - 1) * 86400 + hours * 3600 + minutes * 60 + seconds
\* what new Date() reads: the instant of the tests (a Monday noon), a Sunday
\* night and the last day of the month
Nows ==
  {dateInJanuary(15, 12, 0, 0), dateInJanuary(28, 0, 0, 30),
   dateInJanuary(31, 12, 0, 30)}
Counts == {1, DefaultCount}
ScheduleExpressions ==
  {joinWith(<<<<"0">>, h, d, m, w>>, <<" ">>) :
     h \in {<<"0">>, <<"9">>}, d \in {<<"*">>, <<"1">>, <<"3", "0">>},
     m \in {<<"*">>, <<"2">>}, w \in {<<"*">>, <<"1">>}}
  \cup {<<"*", " ", "*", " ", "*", " ", "*", " ", "*">>,
        <<"3", "0", " ", "0", " ", "9", " ", "*", " ", "*", " ", "M", "O", "N">>,
        <<"0", " ", "0", " ", "9", " ", "*", " ", "*", " ", "8">>,
        <<"0", " ", "9", " ", "*", " ", "*">>, <<" ">>, <<>>, Undefined}
  \cup TestExpressions

(***************************************************************************)
(* The cron parser: one call of an exported function on an expression.     *)
(***************************************************************************)
InitCronParse ==
  /\ args \in [expression : Expressions]
  /\ call = NoCall
  /\ ret = <<>>

\* parseCronExpression(expression)
ParseCronExpression ==
  /\ call = NoCall
  /\ call' = "parseCronExpression"
  /\ ret' = parseCronExpression(args.expression)
  /\ UNCHANGED args

\* validateCronExpression(expression)
ValidateCronExpression ==
  /\ call = NoCall
  /\ call' = "validateCronExpression"
  /\ ret' = validateCronExpression(args.expression)
  /\ UNCHANGED args

NextCronParse == ParseCronExpression \/ ValidateCronExpression

SpecCronParse == InitCronParse /\ [][NextCronParse]_vars

(***************************************************************************)
(* Field expansion: one call on a field and the range and names of a field *)
(* type.                                                                   *)
(***************************************************************************)
InitCronField ==
  /\ args \in [field : Fields, type : FieldTypes]
  /\ call = NoCall
  /\ ret = <<>>

\* parseField(field, range.min, range.max, range.names)
ParseField ==
  /\ call = NoCall
  /\ call' = "parseField"
  /\ ret' = parseField(args.field, CRON_RANGES[args.type].min,
                       CRON_RANGES[args.type].max, CRON_RANGES[args.type].names)
  /\ UNCHANGED args

\* validateCronField(field, type)
ValidateCronField ==
  /\ call = NoCall
  /\ call' = "validateCronField"
  /\ ret' = validateCronField(args.field, args.type)
  /\ UNCHANGED args

NextCronField == ParseField \/ ValidateCronField

SpecCronField == InitCronField /\ [][NextCronField]_vars

(***************************************************************************)
(* The schedule: one call on an expression at an instant now.              *)
(***************************************************************************)
InitCronNext ==
  /\ args \in [expression : ScheduleExpressions, count : Counts, now : Nows]
  /\ call = NoCall
  /\ ret = <<>>

\* calculateNextExecutions(expression, count)
CalculateNextExecutions ==
  /\ call = NoCall
  /\ call' = "calculateNextExecutions"
  /\ ret' = calculateNextExecutions(args.expression, args.count, args.now)
  /\ UNCHANGED args

\* describeCronExpression(expression)
DescribeCronExpression ==
  /\ call = NoCall
  /\ call' = "describeCronExpression"
  /\ ret' = describeCronExpression(args.expression, args.now)
  /\ UNCHANGED args

NextCronNext == CalculateNextExecutions \/ DescribeCronExpression

SpecCronNext == InitCronNext /\ [][NextCronNext]_vars

(***************************************************************************)
(* The exact alignment alone: one call of generateLCSDiff on two line      *)
(* arrays and their normalised forms, as diffTexts calls it.               *)
(***************************************************************************)
LineArraysFrom0 == UNION {[1..n -> LineVocab] : n \in 0..MaxLines}
ExactOrLoose == {o \in DiffOptions : o.ignoreCase = o.ignoreWhitespace}

InitLines ==
  /\ args \in [lines1 : LineArraysFrom0, lines2 : LineArraysFrom0, options : ExactOrLoose]
  /\ call = NoCall
  /\ ret = <<>>

\* generateLCSDiff(lines1, lines2, processedLines1, processedLines2)
GenerateLCSDiff ==
  /\ call = NoCall
  /\ call' = "generateLCSDiff"
  /\ ret' = generateLCSDiff(args.lines1, args.lines2,
                            processLines(args.lines1, args.options),
                            processLines(args.lines2, args.options))
  /\ UNCHANGED args

NextLines == GenerateLCSDiff

SpecLines == InitLines /\ [][NextLines]_vars

(***************************************************************************)
(* The two alignment loops, one iteration at a time.  While a loop runs,   *)
(* ret holds its local variables: the cursors i and j, the result array    *)
(* and, for the exact alignment, the table dp; when the function returns,  *)
(* ret is the array it returns.                                            *)
(***************************************************************************)
InLCSWalk == "generateLCSDiff:while"
InSimpleScan == "generateSimpleDiff:while"

\* generateLCSDiff up to its loop (utils.ts 91-95)
EnterLCSWalk ==
  /\ call = NoCall
  /\ call' = InLCSWalk
  /\ ret' = [dp |-> lcs(processLines(args.lines1, args.options),
                        processLines(args.lines2, args.options)),
             i |-> Len(args.lines1), j |-> Len(args.lines2), result |-> <<>>]
  /\ UNCHANGED args

\* the loop test passes and the body runs once (utils.ts 97-122)
LCSWalkStep ==
  /\ call = InLCSWalk
  /\ ret.i > 0 \/ ret.j > 0
  /\ LET st == lcsWalkStep(args.lines1, args.lines2,
                           processLines(args.lines1, args.options),
                           processLines(args.lines2, args.options),
                           ret.dp, ret.i, ret.j, ret.result)
     IN  ret' = [dp |-> ret.dp, i |-> st.i, j |-> st.j, result |-> st.result]
  /\ UNCHANGED <<args, call>>

\* the loop test fails and generateLCSDiff returns result (utils.ts 97, 124)
ReturnLCSDiff ==
  /\ call = InLCSWalk
  /\ ~(ret.i > 0 \/ ret.j > 0)
  /\ call' = "generateLCSDiff"
  /\ ret' = ret.result
  /\ UNCHANGED args

\* generateSimpleDiff up to its loop (utils.ts 136-138)
EnterSimpleScan ==
  /\ call = NoCall
  /\ call' = InSimpleScan
  /\ ret' = [i |-> 0, j |-> 0, result |-> <<>>]
  /\ UNCHANGED args

\* the loop test passes and the body runs once (utils.ts 140-238)
SimpleScanStep ==
  /\ call = InSimpleScan
  /\ ret.i < Len(args.lines1) \/ ret.j < Len(args.lines2)
  /\ ret' = simpleScanStep(args.lines1, args.lines2,
                           processLines(args.lines1, args.options),
                           processLines(args.lines2, args.options),
                           ret.i, ret.j, ret.result)
  /\ UNCHANGED <<args, call>>

\* the loop test fails and generateSimpleDiff returns result (utils.ts 140, 240)
ReturnSimpleDiff ==
  /\ call = InSimpleScan
  /\ ~(ret.i < Len(args.lines1) \/ ret.j < Len(args.lines2))
  /\ call' = "generateSimpleDiff"
  /\ ret' = ret.result
  /\ UNCHANGED args

NextLoops ==
  \/ EnterLCSWalk \/ LCSWalkStep \/ ReturnLCSDiff
  \/ EnterSimpleScan \/ SimpleScanStep \/ ReturnSimpleDiff

SpecLoops == InitLines /\ [][NextLoops]_vars

(***************************************************************************)
(* The heuristic alignment on arrays longer than its look-ahead: one array *)
(* of up to MaxLong lines against one of up to MaxShort lines, either way  *)
(* round.                                                                  *)
(***************************************************************************)
MaxLong == 6
MaxShort == 2
LongVocab == {<<>>, <<"A", " ">>}
LongArrays == UNION {[1..n -> LongVocab] : n \in 0..MaxLong}
ShortArrays == UNION {[1..n -> LineVocab] : n \in 0..MaxShort}

InitScan ==
  /\ args \in [lines1 : ShortArrays, lines2 : LongArrays, options : ExactOrLoose]
              \cup [lines1 : LongArrays, lines2 : ShortArrays, options : ExactOrLoose]
  /\ call = NoCall
  /\ ret = <<>>

NextScan == EnterSimpleScan \/ SimpleScanStep \/ ReturnSimpleDiff

SpecScan == InitScan /\ [][NextScan]_vars

(***************************************************************************)
(* diffTexts from its line arrays on (utils.ts 281-294), step by step, on  *)
(* arrays whose line counts add up to about LCSThreshold: the choice of    *)
(* the alignment, the iterations of the chosen loop, and the result.  The  *)
(* arrays below the threshold have an empty original, for which lcs fills  *)
(* no cell.                                                                *)
(***************************************************************************)
Repeat(line, n) == [k \in 1..n |-> line]
ManyLines == {Repeat(<<"a">>, n) : n \in (LCSThreshold - 2)..(LCSThreshold + 1)}
FewLines == {<<>>, <<<<"a">>>>, <<<<"A", " ">>>>}
ThresholdArrays ==
  {[lines1 |-> <<>>, lines2 |-> many] : many \in ManyLines}
    \cup {[lines1 |-> few, lines2 |-> many] :
            few \in FewLines, many \in {m \in ManyLines : Len(m) + 1 >= LCSThreshold}}
    \cup {[lines1 |-> many, lines2 |-> few] :
            few \in FewLines, many \in {m \in ManyLines : Len(m) >= LCSThreshold}}
    \cup [lines1 : FewLines, lines2 : FewLines]

InitThreshold ==
  /\ \E a \in ThresholdArrays, o \in ExactOrLoose :
       args = [lines1 |-> a.lines1, lines2 |-> a.lines2, options |-> o]
  /\ call = NoCall
  /\ ret = <<>>

\* useLCS holds and diffTexts calls generateLCSDiff (utils.ts 282-284)
DiffTextsUseLCS ==
  /\ useLCS(args.lines1, args.lines2)
  /\ EnterLCSWalk

\* useLCS fails and diffTexts calls generateSimpleDiff (utils.ts 282-285)
DiffTextsUseSimple ==
  /\ ~useLCS(args.lines1, args.lines2)
  /\ EnterSimpleScan

\* diffTexts returns the lines with their counts (utils.ts 287-294)
DiffTextsReturn ==
  /\ call \in {"generateLCSDiff", "generateSimpleDiff"}
  /\ call' = "diffTexts"
  /\ ret' = diffResult(ret)
  /\ UNCHANGED args

NextThreshold ==
  \/ DiffTextsUseLCS \/ LCSWalkStep \/ ReturnLCSDiff
  \/ DiffTextsUseSimple \/ SimpleScanStep \/ ReturnSimpleDiff
  \/ DiffTextsReturn

SpecThreshold == InitThreshold /\ [][NextThreshold]_vars

(***************************************************************************)
(* Properties.                                                             *)
(***************************************************************************)
\* the number of lines of a text split on the newline character
NumLines(text) == Cardinality({k \in 1..Len(text) : text[k] = NL}) + 1
\* the line array of a text as the diff sees it: none for the empty text
LineCount(text) == IF text = <<>> THEN 0 ELSE NumLines(text)
\* a DiffResult was returned, by the exact or by the heuristic alignment
DiffReturned == call \in {"diffTexts", "generateSimpleDiff"}
NumOfType(lines, t) == Len(SelectSeq(lines, LAMBDA l : l.type = t))

\* C1: the diff of a non-empty text with itself has no changes, no added and
\* no removed line, and as many unchanged lines as the text has lines, in
\* exact and in heuristic mode
C1_DiffIdentity ==
  (DiffReturned /\ args.text1 = args.text2 /\ args.text1 # <<>>) =>
    /\ ret.hasChanges = FALSE
    /\ ret.stats.added = 0
    /\ ret.stats.removed = 0
    /\ ret.stats.unchanged = NumLines(args.text1)

C1_Witness ==
  /\ call = "generateSimpleDiff"
  /\ args.text1 = args.text2
  /\ NumLines(args.text1) = 3
  /\ ret.stats.unchanged = 3
  /\ ~ret.hasChanges

\* the counts of the swapped call, in the mode of the call made
swappedStats ==
  IF call = "diffTexts"
  THEN diffTexts(args.text2, args.text1, args.options).stats
  ELSE diffTextsSimple(args.text2, args.text1, args.options).stats

statsSwappedOf(swapped) ==
  /\ swapped.added = ret.stats.removed
  /\ swapped.removed = ret.stats.added
  /\ swapped.unchanged = ret.stats.unchanged

statsSwapped == statsSwappedOf(swappedStats)

\* C2 as claimed: in either alignment mode, swapping the two texts swaps the
\* added and removed counts and keeps the unchanged count
C2_SymmetryAnyMode == DiffReturned => statsSwapped

\* C2 amended: in exact mode, swapping the two texts swaps the added and
\* removed counts and keeps the unchanged count
C2_SymmetryExact == call = "diffTexts" => statsSwapped

C2_Witness ==
  /\ call = "diffTexts"
  /\ ret.stats.added = 2
  /\ ret.stats.removed = 1
  /\ ret.stats.unchanged = 1
  /\ diffTexts(args.text2, args.text1, args.options).stats.added = 1

\* a is b with zero or more elements left out
RECURSIVE IsSubsequence(_, _)
IsSubsequence(a, b) ==
  IF a = <<>> THEN TRUE
  ELSE IF b = <<>> THEN FALSE
  ELSE IF Head(a) = Head(b) THEN IsSubsequence(Tail(a), Tail(b))
  ELSE IsSubsequence(a, Tail(b))

\* C3: in exact mode, when the non-empty original is the modified text with
\* lines left out, nothing is removed, every original line is unchanged and
\* the added lines are the inserted ones; and the same with the two texts in
\* each other's role
C3_PureInsertionDeletion ==
  call = "diffTexts" =>
    /\ (args.text1 # <<>> /\ IsSubsequence(split(args.text1), split(args.text2))) =>
         /\ ret.stats.removed = 0
         /\ ret.stats.unchanged = NumLines(args.text1)
         /\ ret.stats.added = NumLines(args.text2) - NumLines(args.text1)
    /\ (args.text2 # <<>> /\ IsSubsequence(split(args.text2), split(args.text1))) =>
         /\ ret.stats.added = 0
         /\ ret.stats.unchanged = NumLines(args.text2)
         /\ ret.stats.removed = NumLines(args.text1) - NumLines(args.text2)

C3_Witness ==
  /\ call = "diffTexts"
  /\ args.text1 # <<>>
  /\ args.text1 # args.text2
  /\ IsSubsequence(split(args.text1), split(args.text2))
  /\ NumLines(args.text1) = 2
  /\ ret.lines[2].type = "added"
  /\ ret.stats = [added |-> 1, removed |-> 0, unchanged |-> 2, total |-> 3]

\* C4: total is the number of lines, the three counts add up to it, each
\* count is the number of lines of its type, and hasChanges says whether a
\* line was added or removed
C4_StatsConsistent ==
  DiffReturned =>
    /\ ret.stats.total = Len(ret.lines)
    /\ ret.stats.added + ret.stats.removed + ret.stats.unchanged = ret.stats.total
    /\ ret.stats.added = NumOfType(ret.lines, "added")
    /\ ret.stats.removed = NumOfType(ret.lines, "removed")
    /\ ret.stats.unchanged = NumOfType(ret.lines, "equal")
    /\ ret.hasChanges = (ret.stats.added > 0 \/ ret.stats.removed > 0)
    /\ ret.hasChanges = (\E k \in 1..Len(ret.lines) : ret.lines[k].type # "equal")

C4_Witness ==
  /\ call = "diffTexts"
  /\ ret.stats.added = 1
  /\ ret.stats.removed = 2
  /\ ret.stats.unchanged = 1
  /\ ret.stats.total = 4
  /\ ret.hasChanges

\* C5: an Equal line has both line numbers, a Removed line only lineNumber1,
\* an Added line only lineNumber2, and every line number is between 1 and
\* the number of lines of its text
C5_LineNumbers ==
  DiffReturned =>
    \A k \in 1..Len(ret.lines) :
      LET line == ret.lines[k]
      IN  /\ line.type \in {"equal", "added", "removed"}
          /\ ("lineNumber1" \in DOMAIN line) = (line.type \in {"equal", "removed"})
          /\ ("lineNumber2" \in DOMAIN line) = (line.type \in {"equal", "added"})
          /\ "lineNumber1" \in DOMAIN line =>
               line.lineNumber1 \in 1..LineCount(args.text1)
          /\ "lineNumber2" \in DOMAIN line =>
               line.lineNumber2 \in 1..LineCount(args.text2)

C5_Witness ==
  /\ call = "generateSimpleDiff"
  /\ Len(ret.lines) = 4
  /\ \E k \in 1..4 : ret.lines[k].type = "equal" /\ ret.lines[k].lineNumber2 = 3
  /\ \E k \in 1..4 : ret.lines[k].type = "added" /\ ret.lines[k].lineNumber2 = 2
  /\ \E k \in 1..4 : ret.lines[k].type = "removed" /\ ret.lines[k].lineNumber1 = 2

\* C6: the diff of two empty texts has no line, all counts zero and no
\* changes
C6_BothEmpty ==
  (call = "diffTexts" /\ args.text1 = <<>> /\ args.text2 = <<>>) =>
    /\ ret.lines = <<>>
    /\ ret.stats = [added |-> 0, removed |-> 0, unchanged |-> 0, total |-> 0]
    /\ ret.hasChanges = FALSE

C6_Witness ==
  /\ call = "diffTexts"
  /\ args.text1 = <<>>
  /\ args.text2 = <<>>
  /\ args.options.ignoreWhitespace
  /\ ret.stats.total = 0

\* C7: the content of an Equal or Removed line is the line lineNumber1 of the
\* original text as it was given, the content of an Added line the line
\* lineNumber2 of the modified text as it was given
C7_ContentIsRaw ==
  DiffReturned =>
    \A k \in 1..Len(ret.lines) :
      LET line == ret.lines[k]
      IN  IF line.type = "added"
          THEN line.content = split(args.text2)[line.lineNumber2]
          ELSE line.content = split(args.text1)[line.lineNumber1]

C7_Witness ==
  /\ call = "diffTexts"
  /\ args.options.ignoreCase
  /\ args.options.ignoreWhitespace
  /\ \E k \in 1..Len(ret.lines) :
       /\ ret.lines[k].type = "equal"
       /\ ret.lines[k].content = <<"A", " ">>
       /\ split(args.text2)[ret.lines[k].lineNumber2] = <<"a">>

\* C8: the similarity is 100 for two empty texts, 0 when one text is empty,
\* and else the unchanged count of the diff over the larger line count, as a
\* percentage rounded to two decimals (kept in hundredths); it is in [0, 100]
C8_Similarity ==
  call = "getSimilarityPercentage" =>
    /\ ret \in 0..10000
    /\ (args.text1 = <<>> /\ args.text2 = <<>>) => ret = 10000
    /\ ((args.text1 = <<>>) # (args.text2 = <<>>)) => ret = 0
    /\ (args.text1 # <<>> /\ args.text2 # <<>>) =>
         LET unchanged == diffTexts(args.text1, args.text2, args.options).stats.unchanged
             larger == Max(NumLines(args.text1), NumLines(args.text2))
         IN  /\ 2 * larger * ret <= 2 * unchanged * 10000 + larger
             /\ 2 * unchanged * 10000 + larger < 2 * larger * (ret + 1)

C8_Witness ==
  /\ call = "getSimilarityPercentage"
  /\ NumLines(args.text1) = 3
  /\ NumLines(args.text2) = 2
  /\ ret = 6667

\* C9: processing a processed text again changes nothing
C9_ProcessTextIdempotent ==
  call = "processText" => processText(ret, args.options) = ret

C9_Witness ==
  /\ call = "processText"
  /\ args.options.ignoreCase
  /\ args.options.ignoreWhitespace
  /\ Len(args.text) = 5
  /\ ret = <<"a", " ", "a">>

isChange(line) == line.type # "equal"
\* the first lines of the maximal runs of non-Equal lines of the diff lines d
RunStarts(d) ==
  {s \in 1..Len(d) : isChange(d[s]) /\ (s = 1 \/ ~isChange(d[s - 1]))}
\* the last line of the maximal run that starts at s
RunEnd(d, s) ==
  CHOOSE e \in s..Len(d) :
    /\ \A k \in s..e : isChange(d[k])
    /\ (e = Len(d) \/ ~isChange(d[e + 1]))
\* 1 when an Equal line comes right before the run that starts at s
ContextOf(d, s) == IF s > 1 /\ ~isChange(d[s - 1]) THEN 1 ELSE 0
\* the patch lines of one hunk: header, context, run
HunkSize(d, s) == 1 + ContextOf(d, s) + (RunEnd(d, s) - s + 1)
RECURSIVE SumHunkSizes(_, _)
SumHunkSizes(d, starts) ==
  IF starts = {} THEN 0
  ELSE LET s == CHOOSE x \in starts : TRUE
       IN  HunkSize(d, s) + SumHunkSizes(d, starts \ {s})
\* the patch lines before the hunk of the run that starts at s, after the two
\* file-name lines
HunkOffset(d, s) == 2 + SumHunkSizes(d, {x \in RunStarts(d) : x < s})
Digit(n) == <<"0", "1", "2", "3", "4", "5", "6", "7", "8", "9">>[n + 1]
RunCount(d, s, t) == Cardinality({k \in s..RunEnd(d, s) : d[k].type = t})

\* C10: for a diff with changes the patch has, after the two file-name lines,
\* one hunk per maximal run of non-Equal lines and nothing else: the header
\* '@@ -start1,length1 +start2,length2 @@' with length1 = c + Removed lines of
\* the run and length2 = c + Added lines of the run, then, when c = 1, the
\* Equal line before the run as a ' ' line, then the run's lines with '-' for
\* Removed and '+' for Added; c = 1 exactly when an Equal line comes right
\* before the run
C10_UnifiedDiffHunks ==
  call = "exportAsPatch" =>
    LET d == diffTexts(args.text1, args.text2, args.options).lines
        patchLines == split(ret)
    IN  RunStarts(d) # {} =>
          /\ Len(patchLines) = 2 + SumHunkSizes(d, RunStarts(d))
          /\ \A s \in RunStarts(d) :
               LET at == HunkOffset(d, s)
                   c == ContextOf(d, s)
               IN  /\ \E start1, start2 \in 1..9 :
                        patchLines[at + 1] =
                          <<"@", "@", " ", "-", Digit(start1), ",",
                            Digit(c + RunCount(d, s, "removed")), " ", "+",
                            Digit(start2), ",",
                            Digit(c + RunCount(d, s, "added")), " ", "@", "@">>
                   /\ c = 1 => patchLines[at + 2] = <<" ">> \o d[s - 1].content
                   /\ \A k \in s..RunEnd(d, s) :
                        patchLines[at + 1 + c + (k - s + 1)] =
                          <<IF d[k].type = "removed" THEN "-" ELSE "+">>
                            \o d[k].content

C10_Witness ==
  /\ call = "exportAsPatch"
  /\ LET d == diffTexts(args.text1, args.text2, args.options).lines
     IN  /\ Cardinality(RunStarts(d)) = 2
         /\ \E s \in RunStarts(d) : ContextOf(d, s) = 0
         /\ \E s \in RunStarts(d) :
              /\ ContextOf(d, s) = 1
              /\ RunCount(d, s, "removed") = 1
              /\ RunCount(d, s, "added") = 1

\* the positions where a maximal run of non-white-space characters starts
TokenStarts(e) ==
  {k \in 1..Len(e) : ~isWhitespace(e[k]) /\ (k = 1 \/ isWhitespace(e[k - 1]))}
\* the last position of the run that starts at s
TokenEnd(e, s) ==
  CHOOSE j \in s..Len(e) :
    /\ \A i \in s..j : ~isWhitespace(e[i])
    /\ j = Len(e) \/ isWhitespace(e[j + 1])
\* the n-th maximal run of non-white-space characters of e
Token(e, n) ==
  LET s == CHOOSE x \in TokenStarts(e) :
             Cardinality({y \in TokenStarts(e) : y <= x}) = n
  IN SubSeq(e, s, TokenEnd(e, s))
NumTokens(e) == IF e = Undefined THEN 0 ELSE Cardinality(TokenStarts(e))

\* C11: parseCronExpression succeeds exactly when the expression has 5 or 6
\* white-space separated parts; 5 parts are minute, hour, dayOfMonth, month
\* and dayOfWeek in this order, with 6 parts the first one is second; any
\* other count fails with an error that ends with the count, an empty,
\* missing or blank expression fails; the content of the fields plays no
\* part
C11_ParseCronExpression ==
  call = "parseCronExpression" =>
    LET e == args.expression
        n == NumTokens(e)
    IN /\ ret.success <=> n \in {5, 6}
       /\ n = 5 =>
            /\ DOMAIN ret.data = {"minute", "hour", "dayOfMonth", "month", "dayOfWeek"}
            /\ ret.data.minute = Token(e, 1) /\ ret.data.hour = Token(e, 2)
            /\ ret.data.dayOfMonth = Token(e, 3) /\ ret.data.month = Token(e, 4)
            /\ ret.data.dayOfWeek = Token(e, 5)
       /\ n = 6 =>
            /\ DOMAIN ret.data = {"second", "minute", "hour", "dayOfMonth", "month", "dayOfWeek"}
            /\ ret.data.second = Token(e, 1) /\ ret.data.minute = Token(e, 2)
            /\ ret.data.hour = Token(e, 3) /\ ret.data.dayOfMonth = Token(e, 4)
            /\ ret.data.month = Token(e, 5) /\ ret.data.dayOfWeek = Token(e, 6)
       /\ n \in (1..9) \ {5, 6} =>
            /\ "error" \in DOMAIN ret
            /\ ret.error[Len(ret.error)] = Digit(n)
       /\ n = 0 => ~ret.success /\ "error" \in DOMAIN ret

\* C11 witness: six parts between doubled white space, one of them a minute
\* no clock has, are parsed with the first part as the second field
C11_Witness ==
  /\ call = "parseCronExpression"
  /\ ret.success
  /\ args.expression[1] = " "
  /\ \E k \in 1..Len(args.expression) - 1 :
       args.expression[k] = " " /\ args.expression[k + 1] = NL
  /\ "second" \in DOMAIN ret.data
  /\ ret.data.second = <<"7">>
  /\ ret.data.minute = <<"6", "0">>

\* C12: parseField returns integers of [min, max] in strictly increasing
\* order, for every field and every field type's range and names
C12_ParseFieldSortedInRange ==
  call = "parseField" =>
    \A k \in 1..Len(ret) :
      /\ ret[k] \in CRON_RANGES[args.type].min..CRON_RANGES[args.type].max
      /\ k > 1 => ret[k - 1] < ret[k]

\* C12 witness: the field 5,1-3 of a minute, whose parts are pushed out of
\* order, is returned as 1, 2, 3, 5
C12_Witness ==
  /\ call = "parseField"
  /\ args.field = <<"5", ",", "1", "-", "3">>
  /\ args.type = "minute"
  /\ ret = <<1, 2, 3, 5>>

\* the parts of a comma-separated list
PartsOf(field) == splitOn(field, ",")
\* the values of a field under the range and the names of a field type
Expansion(field, type) ==
  asSet(parseField(field, CRON_RANGES[type].min, CRON_RANGES[type].max,
                   CRON_RANGES[type].names))

\* C13: the values parseField returns for a comma-separated list are the
\* sorted union of the values it returns for each part of the list alone,
\* whatever form the parts have
C13_ListIsUnionOfParts ==
  call = "parseField" =>
    ret = sortNumbers(UNION {Expansion(PartsOf(args.field)[k], args.type) :
                               k \in 1..Len(PartsOf(args.field))})

\* the field of an expression is valid: its expansion is not empty
FieldValid(field, type) == Expansion(field, type) # {}

\* C14: validateCronField holds of a field and a type exactly when parseField
\* returns some value for the field under the type's range and names;
\* validateCronExpression holds exactly when the expression parses and each
\* of its 5 or 6 fields is valid; a minute of 60, an hour of 25 and a day of
\* the week of 8 are rejected
C14_Validation ==
  call = "validateCronExpression" =>
    LET p == parseCronExpression(args.expression)
    IN /\ ret <=> (p.success /\ \A t \in DOMAIN p.data : FieldValid(p.data[t], t))
       /\ p.success =>
            /\ \A t \in DOMAIN p.data : \A type \in FieldTypes :
                 validateCronField(p.data[t], type) <=> FieldValid(p.data[t], type)
            /\ (\/ p.data.minute = <<"6", "0">>
                \/ p.data.hour = <<"2", "5">>
                \/ p.data.dayOfWeek = <<"8">>) => ~ret

\* C14 witness: an expression of six valid fields, the first a second, is
\* accepted
C14_Witness ==
  /\ call = "validateCronExpression"
  /\ ret
  /\ NumTokens(args.expression) = 6
  /\ Token(args.expression, 1) = <<"7">>
  /\ Token(args.expression, 6) = <<"*">>

\* the expression parses and each of its fields has some value
ScheduleValid ==
  /\ NumTokens(args.expression) \in {5, 6}
  /\ \A t \in DOMAIN parseCronExpression(args.expression).data :
       FieldValid(parseCronExpression(args.expression).data[t], t)
ScheduleData == parseCronExpression(args.expression).data
IsStar(field) == field = <<"*">>
\* the first whole minute that is later than now
FirstMinuteAfter(now) == (now \div 60 + 1) * 60
\* the last of the 10,000 whole minutes from the first one on
LastMinuteFrom(start) == start + 60 * (maxAttempts - 1)
WholeMinutes(start, last) == {start + 60 * k : k \in 0..((last - start) \div 60)}

\* C15: with exactly one of dayOfMonth and dayOfWeek a '*', every instant
\* calculateNextExecutions returns satisfies the other field: its day of the
\* month is in the dayOfMonth expansion when dayOfWeek is '*', its weekday
\* is in the dayOfWeek expansion when dayOfMonth is '*'
C15_WildcardDayField ==
  (call = "calculateNextExecutions" /\ ScheduleValid) =>
    /\ (IsStar(ScheduleData.dayOfWeek) /\ ~IsStar(ScheduleData.dayOfMonth)) =>
         \A k \in 1..Len(ret) :
           getDate(ret[k]) \in Expansion(ScheduleData.dayOfMonth, "dayOfMonth")
    /\ (IsStar(ScheduleData.dayOfMonth) /\ ~IsStar(ScheduleData.dayOfWeek)) =>
         \A k \in 1..Len(ret) :
           getDay(ret[k]) \in Expansion(ScheduleData.dayOfWeek, "dayOfWeek")

\* the whole minutes from start to last whose month, hour and minute are in
\* M, H and Mi, and whose day of the month is in D or whose weekday is in W
EitherDayMinutes(M, D, W, H, Mi, start, last) ==
  {t \in WholeMinutes(start, last) :
     /\ getMinutes(t) \in Mi /\ getHours(t) \in H /\ getMonth1(t) \in M
     /\ getDate(t) \in D \/ getDay(t) \in W}

\* the returned instants are the minutes of the window, up to the last
\* returned one when count instants are returned, that either day field
\* admits
EitherDayReturned(d, r, count, start) ==
  asSet(r) =
    EitherDayMinutes(Expansion(d.month, "month"), Expansion(d.dayOfMonth, "dayOfMonth"),
                     Expansion(d.dayOfWeek, "dayOfWeek"), Expansion(d.hour, "hour"),
                     Expansion(d.minute, "minute"), start,
                     IF Len(r) = count THEN r[Len(r)] ELSE LastMinuteFrom(start))

\* C16: with dayOfMonth and dayOfWeek both restricted, a candidate's day
\* matches exactly when its day of the month is in the dayOfMonth expansion
\* or its weekday is in the dayOfWeek expansion
C16_BothRestrictedEitherDay ==
  (/\ call = "calculateNextExecutions" /\ ScheduleValid
   /\ ~IsStar(ScheduleData.dayOfMonth) /\ ~IsStar(ScheduleData.dayOfWeek)) =>
    EitherDayReturned(ScheduleData, ret, args.count, FirstMinuteAfter(args.now))

\* C16 witness: 0 9 1 * 1 returns a Monday that is not the 1st and a 1st
\* that is not a Monday
C16_Witness ==
  /\ call = "calculateNextExecutions"
  /\ args.expression = <<"0", " ", "9", " ", "1", " ", "*", " ", "1">>
  /\ \E i \in 1..Len(ret) : getDay(ret[i]) = 1 /\ getDate(ret[i]) # 1
  /\ \E j \in 1..Len(ret) : getDate(ret[j]) = 1 /\ getDay(ret[j]) # 1

\* the day rule of the expression: a '*' day field leaves the day to the
\* other field, and two restricted fields admit the days of either
DayRule(dStar, wStar, D, W, t) ==
  IF dStar /\ wStar THEN TRUE
  ELSE IF dStar THEN getDay(t) \in W
  ELSE IF wStar THEN getDate(t) \in D
  ELSE getDate(t) \in D \/ getDay(t) \in W

\* the matching minutes of the window
MatchingMinutes(M, D, W, H, Mi, dStar, wStar, start, last) ==
  {t \in WholeMinutes(start, last) :
     /\ getMinutes(t) \in Mi /\ getHours(t) \in H /\ getMonth1(t) \in M
     /\ DayRule(dStar, wStar, D, W, t)}
MatchingOf(d, start) ==
  MatchingMinutes(Expansion(d.month, "month"), Expansion(d.dayOfMonth, "dayOfMonth"),
                  Expansion(d.dayOfWeek, "dayOfWeek"), Expansion(d.hour, "hour"),
                  Expansion(d.minute, "minute"), IsStar(d.dayOfMonth),
                  IsStar(d.dayOfWeek), start, LastMinuteFrom(start))

\* r is the first Min(count, k) of the k instants of matching, in order
FirstOf(matching, r, count, now) ==
  /\ Len(r) = Min(count, Cardinality(matching))
  /\ \A k \in 1..Len(r) :
       /\ r[k] \in matching
       /\ r[k] % 60 = 0
       /\ r[k] > now
       /\ k > 1 => r[k - 1] < r[k]
  /\ \A t \in matching : (Len(r) > 0 /\ t < r[Len(r)]) => t \in asSet(r)

\* C17: for a valid expression calculateNextExecutions returns, in strictly
\* increasing order, the first Min(count, k) of the k matching minutes among
\* the 10,000 whole minutes that follow now; each is a whole minute later
\* than now and no matching minute before the last returned one is left out
C17_FirstMatchingMinutes ==
  (call = "calculateNextExecutions" /\ ScheduleValid) =>
    FirstOf(MatchingOf(ScheduleData, FirstMinuteAfter(args.now)), ret,
            args.count, args.now)

\* C18: calculateNextExecutions tests at most 10,000 candidates, and for
\* 0 0 30 2 * with count 5 it returns fewer than 5 instants at any time
C18_ImpossibleDate ==
  call = "calculateNextExecutions" =>
    /\ ScheduleValid =>
         finalAttempt(args.expression, args.count, args.now).attempts <= maxAttempts
    /\ (/\ args.expression = <<"0", " ", "0", " ", "3", "0", " ", "2", " ", "*">>
        /\ args.count = 5) => Len(ret) < 5

\* C19: for an expression that does not parse or has a field without values
\* calculateNextExecutions returns no instant and describeCronExpression
\* returns null
C19_InvalidExpression ==
  (call \in {"calculateNextExecutions", "describeCronExpression"} /\ ~ScheduleValid) =>
    /\ call = "calculateNextExecutions" => ret = <<>>
    /\ call = "describeCronExpression" => ret = Null

\* C19 witness: an expression of five fields, one of them a weekday of 8, is
\* described as null
C19_Witness ==
  /\ call = "describeCronExpression"
  /\ NumTokens(args.expression) = 5
  /\ Token(args.expression, 5) = <<"8">>
  /\ ret = Null

\* the elements of a at the positions S, in order
Pick(a, S) == [k \in 1..Cardinality(S) |-> a[sortNumbers(S)[k]]]
\* the length of a longest common subsequence of a and b
LongestCommon(a, b) ==
  LET common == {S \in SUBSET (1..Len(a)) : IsSubsequence(Pick(a, S), b)}
  IN CHOOSE n \in 0..Len(a) :
       /\ \E S \in common : Cardinality(S) = n
       /\ \A S \in common : Cardinality(S) <= n
\* the alignment d of p1 and p2 keeps a longest common subsequence
KeepsLongest(p1, p2, d, longest) ==
  /\ NumOfType(d, "equal") = longest
  /\ lcs(p1, p2)[Len(p1)][Len(p2)] = longest
  /\ NumOfType(d, "added") + NumOfType(d, "removed") = Len(p1) + Len(p2) - 2 * longest

\* C20: generateLCSDiff emits as many Equal lines as a longest common
\* subsequence of the normalised line arrays has elements, which is
\* dp[m][n] of lcs, so that added + removed is the least a script of
\* insertions and deletions can have
C20_EqualIsLongestCommon ==
  call = "generateLCSDiff" =>
    KeepsLongest(processLines(args.lines1, args.options),
                 processLines(args.lines2, args.options), ret,
                 LongestCommon(processLines(args.lines1, args.options),
                               processLines(args.lines2, args.options)))

\* C20 witness: two arrays of three lines that differ as written and have
\* two lines in common once normalised, with a line removed and one added
C20_Witness ==
  /\ call = "generateLCSDiff"
  /\ args.options.ignoreCase
  /\ Len(args.lines1) = 3 /\ Len(args.lines2) = 3
  /\ NumOfType(ret, "equal") = 2
  /\ NumOfType(ret, "removed") = 1
  /\ NumOfType(ret, "added") = 1
  /\ \E k \in 1..Len(ret) :
       ret[k].type = "equal" /\ args.lines1[ret[k].lineNumber1] # args.lines2[ret[k].lineNumber2]

\* the normalised forms of the two line arrays of the call
normalised1 == processLines(args.lines1, args.options)
normalised2 == processLines(args.lines2, args.options)
\* the walk is at (i, j), both positive, on two lines whose normalised forms
\* differ
WalkAtDifferentLines ==
  /\ call = InLCSWalk
  /\ ret.i > 0
  /\ ret.j > 0
  /\ normalised1[ret.i] # normalised2[ret.j]
\* the iteration put one line of type t before the result
Unshifted(t) ==
  /\ Len(ret'.result) = Len(ret.result) + 1
  /\ Tail(ret'.result) = ret.result
  /\ ret'.result[1].type = t

\* C21: an iteration of the backward walk at (i, j), i > 0 and j > 0, on
\* lines whose normalised forms differ puts the Added line j before the result
\* and decrements j alone when dp[i][j-1] >= dp[i-1][j], ties included; an
\* iteration puts a Removed line before the result and decrements i only when
\* j = 0 or dp[i][j-1] < dp[i-1][j]
C21_TieEmitsAdded ==
  [][(call = InLCSWalk /\ call' = InLCSWalk) =>
       /\ (WalkAtDifferentLines /\ ret.dp[ret.i][ret.j - 1] >= ret.dp[ret.i - 1][ret.j]) =>
            /\ Unshifted("added")
            /\ ret'.result[1] = [type |-> "added", content |-> args.lines2[ret.j],
                                 lineNumber2 |-> ret.j]
            /\ ret'.i = ret.i
            /\ ret'.j = ret.j - 1
       /\ Unshifted("removed") =>
            /\ ret'.i = ret.i - 1
            /\ ret'.j = ret.j
            /\ ret.j = 0 \/ ret.dp[ret.i][ret.j - 1] < ret.dp[ret.i - 1][ret.j]]_vars

\* the walk has just put the Added line j + 1 before the result at a tie of
\* two cells that are not zero
C21_Witness ==
  /\ call = InLCSWalk
  /\ ret.i > 0
  /\ ret.result # <<>>
  /\ ret.result[1].type = "added"
  /\ ret.result[1].lineNumber2 = ret.j + 1
  /\ normalised1[ret.i] # normalised2[ret.j + 1]
  /\ ret.dp[ret.i][ret.j] = ret.dp[ret.i - 1][ret.j + 1]
  /\ ret.dp[ret.i][ret.j] >= 1

\* the line of type t is directly followed by a line of type u
Followed(lines, t, u) ==
  \E k \in 1..(Len(lines) - 1) : lines[k].type = t /\ lines[k + 1].type = u

\* C22 as claimed: in the lines of the exact alignment a Removed line comes
\* after the Added line of the same place, never directly before it
C22_RemovedBelowAdded ==
  call = "generateLCSDiff" => ~Followed(ret, "removed", "added")

\* C22 amended: in the lines of the exact alignment a Removed line comes
\* before the Added line of the same place: in a run of changed lines no
\* Added line is directly followed by a Removed line
C22_RemovedAboveAdded ==
  call = "generateLCSDiff" => ~Followed(ret, "added", "removed")

\* one line replaced by a different line, after a line that stays
C22_Witness ==
  /\ call = "generateLCSDiff"
  /\ Len(args.lines1) = 2
  /\ Len(args.lines2) = 2
  /\ Len(ret) = 3
  /\ ret[1].type = "equal"
  /\ ret[2] = [type |-> "removed", content |-> args.lines1[2], lineNumber1 |-> 2]
  /\ ret[3] = [type |-> "added", content |-> args.lines2[2], lineNumber2 |-> 2]

\* the line counts of the two arrays diffTexts built, together
TotalLines == Len(args.lines1) + Len(args.lines2)

\* C23: diffTexts runs generateLCSDiff when the two line counts add up to
\* less than 1000 and generateSimpleDiff when they add up to 1000 or more,
\* and the lines it returns are the array that call returned
C23_AlignmentByLineCount ==
  [][/\ (call = NoCall /\ call' = InLCSWalk) => TotalLines < LCSThreshold
     /\ (call = NoCall /\ call' = InSimpleScan) => TotalLines >= LCSThreshold
     /\ call' = "diffTexts" =>
          /\ ret'.lines = ret
          /\ call = "generateLCSDiff" <=> TotalLines < LCSThreshold
          /\ call = "generateSimpleDiff" <=> TotalLines >= LCSThreshold]_vars

\* generateSimpleDiff has returned for diffTexts on one line against 999
C23_Witness ==
  /\ call = "generateSimpleDiff"
  /\ Len(args.lines1) = 1
  /\ TotalLines = LCSThreshold
  /\ Len(ret) = LCSThreshold

\* the scan is at cursors (i, j) inside both arrays, on two lines whose
\* normalised forms differ
ScanAtMismatch ==
  /\ call = InSimpleScan
  /\ ret.i < Len(args.lines1)
  /\ ret.j < Len(args.lines2)
  /\ normalised1[ret.i + 1] # normalised2[ret.j + 1]
\* what the iteration pushed at the end of the result
Pushed == SubSeq(ret'.result, Len(ret.result) + 1, Len(ret'.result))
ResultKept == SubSeq(ret'.result, 1, Len(ret.result)) = ret.result
\* the lines of the modified array, up to reach lines after line j, whose
\* normalised form is that of the original line i (0-based, as the cursors)
AheadInModified(reach) ==
  {k \in (ret.j + 1)..(ret.j + reach) :
     k < Len(args.lines2) /\ normalised1[ret.i + 1] = normalised2[k + 1]}
\* the lines of the original array, up to reach lines after line i, whose
\* normalised form is that of the modified line j
AheadInOriginal(reach) ==
  {k \in (ret.i + 1)..(ret.i + reach) :
     k < Len(args.lines1) /\ normalised1[k + 1] = normalised2[ret.j + 1]}
Least(S) == CHOOSE k \in S : \A other \in S : k <= other
AddedLines(from, to) ==
  [x \in 1..(to - from) |->
     [type |-> "added", content |-> args.lines2[from + x], lineNumber2 |-> from + x]]
RemovedLines(from, to) ==
  [x \in 1..(to - from) |->
     [type |-> "removed", content |-> args.lines1[from + x], lineNumber1 |-> from + x]]
EqualPair(i, j) ==
  [type |-> "equal", content |-> args.lines1[i + 1], lineNumber1 |-> i + 1,
   lineNumber2 |-> j + 1]

\* C24: on a mismatch at (i, j), when the original line i matches a modified
\* line k with j < k <= j + 5, the iteration pushes the modified lines j..k-1
\* as Added and then the Equal line of (i, k), for the least such k; when it
\* does not, and the modified line j matches an original line k with
\* i < k <= i + 5, the iteration pushes the original lines i..k-1 as Removed
\* and then the Equal line of (k, j), for the least such k
C24_LookAheadFiveLines ==
  [][(ScanAtMismatch /\ call' = InSimpleScan) =>
       /\ AheadInModified(lookAhead) # {} =>
            /\ ResultKept
            /\ Pushed = AddedLines(ret.j, Least(AheadInModified(lookAhead)))
                           \o <<EqualPair(ret.i, Least(AheadInModified(lookAhead)))>>
       /\ (AheadInModified(lookAhead) = {} /\ AheadInOriginal(lookAhead) # {}) =>
            /\ ResultKept
            /\ Pushed = RemovedLines(ret.i, Least(AheadInOriginal(lookAhead)))
                           \o <<EqualPair(Least(AheadInOriginal(lookAhead)), ret.j)>>]_vars

\* C25: on a mismatch at (i, j), when none of the lines the two look-ahead
\* loops visit matches, the iteration pushes the Removed original line i and
\* then the Added modified line j, and advances both cursors by one
C25_NoMatchEmitsBoth ==
  [][(/\ ScanAtMismatch
      /\ call' = InSimpleScan
      /\ AheadInModified(lookAhead - 1) = {}
      /\ AheadInOriginal(lookAhead - 1) = {}) =>
       /\ ResultKept
       /\ Pushed = RemovedLines(ret.i, ret.i + 1) \o AddedLines(ret.j, ret.j + 1)
       /\ ret'.i = ret.i + 1
       /\ ret'.j = ret.j + 1]_vars

\* the first iteration found no match among the four modified lines after
\* line 0 nor in the original line after line 0, and pushed both lines
C25_Witness ==
  /\ call = InSimpleScan
  /\ Len(args.lines1) = 2
  /\ Len(args.lines2) >= lookAhead
  /\ args.options.ignoreCase
  /\ ret.i = 1
  /\ ret.j = 1
  /\ Len(ret.result) = 2
  /\ ret.result[1].type = "removed"
  /\ ret.result[2].type = "added"

\* the two sides of a part of the form expr/step
ExprOf(part) == splitOn(part, "/")[1]
StepOf(part) == splitOn(part, "/")[2]
IsStepPart(part) == Len(splitOn(part, "/")) = 2
\* the text is a positive integer: digits only, with a value above zero
IsNumber(t) == t # <<>> /\ \A k \in 1..Len(t) : isDigit(t[k])
IsPositiveInteger(t) == IsNumber(t) /\ digitsValue(t, 0) > 0
\* what a number or a name of the field type resolves to; -1, which is
\* outside every range, for a text that is neither
Resolved(t, type) ==
  IF IsNumber(t) THEN digitsValue(t, 0)
  ELSE IF CRON_RANGES[type].names # NoNames
          /\ findNameIndex(CRON_RANGES[type].names, t) # -1
  THEN findNameIndex(CRON_RANGES[type].names, t) + CRON_RANGES[type].min
  ELSE -1
Stepped(from, to, step) == {x \in from..to : (x - from) % step = 0}
\* the values the claim gives a part expr/step under a field type
StepValues(part, type) ==
  LET min == CRON_RANGES[type].min
      max == CRON_RANGES[type].max
      bounds == splitOn(ExprOf(part), "-")
  IN  IF ~IsPositiveInteger(StepOf(part)) THEN {}
      ELSE IF ExprOf(part) = <<"*">>
      THEN Stepped(min, max, digitsValue(StepOf(part), 0))
      ELSE IF Len(bounds) = 2
      THEN IF /\ min <= Resolved(bounds[1], type)
              /\ Resolved(bounds[1], type) <= Resolved(bounds[2], type)
              /\ Resolved(bounds[2], type) <= max
           THEN Stepped(Resolved(bounds[1], type), Resolved(bounds[2], type),
                        digitsValue(StepOf(part), 0))
           ELSE {}
      ELSE IF min <= Resolved(ExprOf(part), type) /\ Resolved(ExprOf(part), type) <= max
      THEN Stepped(Resolved(ExprOf(part), type), max, digitsValue(StepOf(part), 0))
      ELSE {}
AllStepParts(field) ==
  \A k \in 1..Len(PartsOf(field)) : IsStepPart(PartsOf(field)[k])

\* C26: for a field whose comma-parts all have the form expr/step, parseField
\* returns the sorted values of the parts, where a part with a positive
\* integer step gives min, min+step, ... up to max for '*', a, a+step, ... up
\* to b for a range a-b with min <= a <= b <= max, and v, v+step, ... up to
\* max for a value v in [min, max], and a part whose step is not a positive
\* integer or whose expr resolves outside [min, max] gives nothing
C26_SteppedParts ==
  (call = "parseField" /\ AllStepParts(args.field)) =>
    ret = sortNumbers(UNION {StepValues(PartsOf(args.field)[k], args.type) :
                               k \in 1..Len(PartsOf(args.field))})

\* generateLCSDiff or generateSimpleDiff has returned its array of lines
LinesReturned == call \in {"generateLCSDiff", "generateSimpleDiff"}
NotAdded(lines) == SelectSeq(lines, LAMBDA l : l.type # "added")
NotRemoved(lines) == SelectSeq(lines, LAMBDA l : l.type # "removed")

\* C27: in both modes the lines that are not Added carry lineNumber1 = 1..m
\* in order, each with the original line as content, the lines that are not
\* Removed carry lineNumber2 = 1..n in order, and every Equal line pairs two
\* lines whose normalised forms are equal
C27_EveryLineOnceInOrder ==
  LinesReturned =>
    /\ Len(NotAdded(ret)) = Len(args.lines1)
    /\ \A k \in 1..Len(NotAdded(ret)) :
         /\ NotAdded(ret)[k].lineNumber1 = k
         /\ NotAdded(ret)[k].content = args.lines1[k]
    /\ Len(NotRemoved(ret)) = Len(args.lines2)
    /\ \A k \in 1..Len(NotRemoved(ret)) : NotRemoved(ret)[k].lineNumber2 = k
    /\ \A k \in 1..Len(ret) :
         ret[k].type = "equal" =>
           normalised1[ret[k].lineNumber1] = normalised2[ret[k].lineNumber2]

\* the heuristic returned lines of the three types, with an Equal line that
\* pairs two lines equal only in their normalised forms
C27_Witness ==
  /\ call = "generateSimpleDiff"
  /\ \E k \in 1..Len(ret) : ret[k].type = "added"
  /\ \E k \in 1..Len(ret) : ret[k].type = "removed"
  /\ \E k \in 1..Len(ret) :
       /\ ret[k].type = "equal"
       /\ args.lines1[ret[k].lineNumber1] # args.lines2[ret[k].lineNumber2]

\* C28: areTextsIdentical holds of two texts and options exactly when the
\* diff of the two texts under the options has no changes
C28_IdenticalIffNoChanges ==
  call = "areTextsIdentical" =>
    (ret <=> ~diffTexts(args.text1, args.text2, args.options).hasChanges)

\* the cursors and the result after the iteration the loop is about to run
NextWalk ==
  lcsWalkStep(args.lines1, args.lines2, normalised1, normalised2,
              ret.dp, ret.i, ret.j, ret.result)
NextScanned ==
  simpleScanStep(args.lines1, args.lines2, normalised1, normalised2,
                 ret.i, ret.j, ret.result)
Advances(st, from1, to1, from2, to2) ==
  /\ st.i \in from1..to1
  /\ st.j \in from2..to2

\* C29: every iteration of the two loops moves a cursor and moves none back:
\* in the exact walk i and j stay in 0..i and 0..j and one of them decreases,
\* in the heuristic scan they stay in i..m and j..n and one of them increases;
\* the array either function returns has between max(m, n) and m + n lines
C29_LoopsAdvance ==
  /\ (call = InLCSWalk /\ (ret.i > 0 \/ ret.j > 0)) =>
       /\ Advances(NextWalk, 0, ret.i, 0, ret.j)
       /\ NextWalk.i + NextWalk.j < ret.i + ret.j
  /\ (call = InSimpleScan /\ (ret.i < Len(args.lines1) \/ ret.j < Len(args.lines2))) =>
       /\ Advances(NextScanned, ret.i, Len(args.lines1), ret.j, Len(args.lines2))
       /\ NextScanned.i + NextScanned.j > ret.i + ret.j
  /\ LinesReturned =>
       /\ Len(ret) >= Max(Len(args.lines1), Len(args.lines2))
       /\ Len(ret) <= Len(args.lines1) + Len(args.lines2)

\* the exact walk returned, on two arrays of three lines, after five
\* iterations: more lines than either array and fewer than both together
C29_Witness ==
  /\ call = "generateLCSDiff"
  /\ Len(args.lines1) = 3
  /\ Len(args.lines2) = 3
  /\ Len(ret) = 5

\* the lines of the array are pairwise distinct
Distinct(lines) ==
  \A k, h \in 1..Len(lines) : k # h => lines[k] # lines[h]
\* two arrays of the same length that differ in exactly one position
DifferInOnePosition(a, b) ==
  /\ Len(a) = Len(b)
  /\ Cardinality({k \in 1..Len(a) : a[k] # b[k]}) = 1

\* C30: on the same arrays the heuristic returns no more Equal lines than
\* the exact alignment; on two arrays of the same length, each of pairwise
\* distinct lines, that differ in exactly one position, it returns n - 1
\* Equal lines, one Added and one Removed line
C30_HeuristicNeverBetter ==
  call = "generateSimpleDiff" =>
    /\ NumOfType(ret, "equal") <=
         NumOfType(generateLCSDiff(args.lines1, args.lines2,
                                   normalised1, normalised2), "equal")
    /\ (/\ Distinct(normalised1)
        /\ Distinct(normalised2)
        /\ DifferInOnePosition(normalised1, normalised2)) =>
         /\ NumOfType(ret, "equal") = Len(args.lines1) - 1
         /\ NumOfType(ret, "added") = 1
         /\ NumOfType(ret, "removed") = 1

\* the heuristic returned fewer Equal lines than the exact alignment finds
C30_Witness ==
  /\ call = "generateSimpleDiff"
  /\ NumOfType(ret, "equal") <
       NumOfType(generateLCSDiff(args.lines1, args.lines2,
                                 normalised1, normalised2), "equal")

=============================================================================
